---- MODULE Spec2Model ----
(***************************************************************************)
(* Step-trace generators and players of the interactive-learner notes.     *)
(*                                                                         *)
(* Every note is a React function component.  A component's useState       *)
(* cells are modelled by variables holding the LATEST value of the cell    *)
(* (every queued update applied, functional updates applied to the queued  *)
(* value).  What the handlers and timer callbacks READ is not that value   *)
(* but the closure of the render that created them; the last committed     *)
(* render is kept in `view`, and an interval timer carries the index and   *)
(* trace length of the render whose effect created it.                     *)
(*                                                                         *)
(* Scheduling (React 18 root, browser event loop):                         *)
(*  - a DOM event handler (click, change) runs against the committed       *)
(*    render and React flushes its updates, the commit and the passive     *)
(*    effects before the event returns: one action;                        *)
(*  - a timer callback only queues updates; the render they need is a      *)
(*    later task (action Render), and so is the render needed by updates   *)
(*    queued from inside a passive effect;                                 *)
(*  - an interval fires at most once between two commits: its period       *)
(*    (>= 100 ms, the slider's minimum) is longer than a render.           *)
(* Explanation strings and purely visual fields of a Step are left out.    *)
(***************************************************************************)
EXTENDS Integers, Sequences, FiniteSets, TLC

(***************************************************************************)
(* Bounds of the model.                                                    *)
(***************************************************************************)
MaxTextLen == 5

(***************************************************************************)
(* Generic helpers.                                                        *)
(***************************************************************************)

Last(s) == s[Len(s)]

Reverse(s) == [k \in 1..Len(s) |-> s[Len(s) + 1 - k]]

Abs(x) == IF x < 0 THEN -x ELSE x

Max(a, b) == IF a > b THEN a ELSE b

Min(a, b) == IF a < b THEN a ELSE b

Digits == {"0", "1", "2", "3", "4", "5", "6", "7", "8", "9"}

DigitVal(c) ==
  CASE c = "0" -> 0 [] c = "1" -> 1 [] c = "2" -> 2 [] c = "3" -> 3
    [] c = "4" -> 4 [] c = "5" -> 5 [] c = "6" -> 6 [] c = "7" -> 7
    [] c = "8" -> 8 [] c = "9" -> 9

\* The characters a text field is fed with: digits, the separators the
\* handlers know, and one character no handler accepts.
Chars == {"1", "9", ",", "-", " ", "a"}

Texts == UNION {[1..k -> Chars] : k \in 0..MaxTextLen}

\* String.prototype.split(","): the pieces between commas, empty ones kept.
RECURSIVE SplitComma(_)
SplitComma(s) ==
  IF \A k \in 1..Len(s) : s[k] # ","
  THEN <<s>>
  ELSE LET k == CHOOSE j \in 1..Len(s) :
                  s[j] = "," /\ \A h \in 1..(j - 1) : s[h] # ","
       IN <<SubSeq(s, 1, k - 1)>> \o SplitComma(SubSeq(s, k + 1, Len(s)))

\* String.prototype.trim(): leading and trailing blanks removed.
RECURSIVE Trim(_)
Trim(s) ==
  IF s = <<>> THEN s
  ELSE IF Head(s) = " " THEN Trim(Tail(s))
  ELSE IF Last(s) = " " THEN Trim(SubSeq(s, 1, Len(s) - 1))
  ELSE s

\* Decimal value of a string of digits.
RECURSIVE DecValue(_)
DecValue(s) ==
  IF s = <<>> THEN 0 ELSE 10 * DecValue(SubSeq(s, 1, Len(s) - 1)) + DigitVal(Last(s))

AllDigits(s) == s # <<>> /\ \A k \in 1..Len(s) : s[k] \in Digits

\* Number(s) on a trimmed, non-empty string: an optional sign and digits give
\* the integer, anything else (an inner blank, a lone or inner "-") is NaN.
ToNumber(s) ==
  IF AllDigits(s) THEN [nan |-> FALSE, val |-> DecValue(s)]
  ELSE IF s # <<>> /\ Head(s) = "-" /\ AllDigits(Tail(s))
       THEN [nan |-> FALSE, val |-> 0 - DecValue(Tail(s))]
       ELSE [nan |-> TRUE, val |-> 0]

SelectNonEmpty(ss) == SelectSeq(ss, LAMBDA t : t # <<>>)

MapSeq(f(_), s) == [k \in 1..Len(s) |-> f(s[k])]

\* val.split(",").map(trim).filter(non-empty).map(Number)
NumberParts(val) ==
  MapSeq(ToNumber, SelectNonEmpty(MapSeq(Trim, SplitComma(val))))

(***************************************************************************)
(* Next Greater Element (Stack/Next-Greater-Element.tsx): the trace        *)
(* generator.  Array positions in a Step are the code's 0-based ones; -1   *)
(* stands for "no position".  A stack is a sequence whose top is its last  *)
(* element, as in the code.                                                *)
(***************************************************************************)
MAX_ARR_SIZE == 12

MAX_VAL == 50

NgeStep(phase, i, stack, ansList, final, line) ==
  [phase |-> phase, currentIndex |-> i, stack |-> stack, rawAns |-> ansList,
   finalAns |-> final, codeLine |-> line]

\* A pop loop that keeps an equal element on the stack.
RECURSIVE PopLoopStrict(_, _, _, _)
PopLoopStrict(i, currentVal, stack, ansList) ==
  IF Len(stack) = 0 \/ currentVal <= Last(stack)
  THEN [stack |-> stack, steps |-> <<>>]
  ELSE PopLoopStrict(i, currentVal, SubSeq(stack, 1, Len(stack) - 1), ansList)

\* The pop loop for position i holding currentVal: the stack it leaves and
\* the Steps it records.
RECURSIVE PopLoop(_, _, _, _)
PopLoop(i, currentVal, stack, ansList) ==
  IF Len(stack) = 0
  THEN [stack |-> stack, steps |-> <<>>]
  ELSE LET topVal == Last(stack)
           check == NgeStep("pop", i, stack, ansList, <<>>, "check-pop")
                      @@ [compareVal |-> topVal]
       IN IF currentVal >= topVal
          THEN LET popped == SubSeq(stack, 1, Len(stack) - 1)
                   doPop == NgeStep("pop", i, popped, ansList, <<>>, "do-pop")
                              @@ [poppedVal |-> topVal]
                   rest == PopLoop(i, currentVal, popped, ansList)
               IN [stack |-> rest.stack, steps |-> <<check, doPop>> \o rest.steps]
          ELSE LET stop == NgeStep("pop", i, stack, ansList, <<>>, "check-pop")
                             @@ [compareVal |-> topVal]
               IN [stack |-> stack, steps |-> <<check, stop>>]

\* The rest of the loop body for position i once the pop loop has left pl:
\* record the answer, push the value.
RecordAndPush(currentVal, i, stack, ansList, pl) ==
  LET loopStep == NgeStep("loop", i, stack, ansList, <<>>, "loop")
      recordedVal == IF Len(pl.stack) > 0 THEN Last(pl.stack) ELSE -1
      ans2 == Append(ansList, recordedVal)
      recordStep == NgeStep("record", i, pl.stack, ans2, <<>>,
                            IF Len(pl.stack) > 0 THEN "add-peek" ELSE "add-neg1")
      stack2 == Append(pl.stack, currentVal)
      pushStep == NgeStep("push", i, stack2, ans2, <<>>, "push")
  IN [stack |-> stack2, ansList |-> ans2,
      steps |-> <<loopStep>> \o pl.steps \o <<recordStep, pushStep>>]

\* The body of the for loop for position i: loop Step, pop loop, record, push.
LoopBody(a, i, stack, ansList) ==
  RecordAndPush(a[i + 1], i, stack, ansList, PopLoop(i, a[i + 1], stack, ansList))

\* for (let i = n - 1; i >= 0; i--), entered at position i; LoopAfter is the
\* loop after the body of position i has left b.
RECURSIVE LoopFrom(_, _, _, _)
RECURSIVE LoopAfter(_, _, _)
LoopAfter(a, i, b) ==
  [LoopFrom(a, i - 1, b.stack, b.ansList) EXCEPT !.steps = b.steps \o @]

LoopFrom(a, i, stack, ansList) ==
  IF i < 0
  THEN [stack |-> stack, ansList |-> ansList, steps |-> <<>>]
  ELSE LoopAfter(a, i, LoopBody(a, i, stack, ansList))

\* The Steps around the loop: init before it, reverse and complete after it.
WithInitAndFinal(loop) ==
  LET initStep == NgeStep("init", -1, <<>>, <<>>, <<>>, "init")
      reverseStep == NgeStep("reverse", -1, loop.stack, loop.ansList, <<>>, "reverse")
      final == Reverse(loop.ansList)
      complete == NgeStep("complete", -1, loop.stack, loop.ansList, final, "return")
  IN <<initStep>> \o loop.steps \o <<reverseStep, complete>>

\* The Step list generateSteps hands to setSteps.
generateSteps(a) == WithInitAndFinal(LoopFrom(a, Len(a) - 1, <<>>, <<>>))

\* handleArrChange: the characters the regular expression lets through.
ArrChars == Digits \cup {",", " ", "-"}

\* handleArrChange: TRUE when the typed text reaches setArr.
ArrAccepted(val) ==
  /\ \A k \in 1..Len(val) : val[k] \in ArrChars
  /\ LET parts == NumberParts(val)
     IN /\ Len(parts) <= MAX_ARR_SIZE
        /\ \A k \in 1..Len(parts) : ~parts[k].nan /\ Abs(parts[k].val) <= MAX_VAL

\* handleArrChange: the array handed to setArr.
ArrParsed(val) == MapSeq(LAMBDA p : p.val, NumberParts(val))

(***************************************************************************)
(* The standard player, as NextGreaterElementVisualizer has it and the     *)
(* other notes copy it.  App.tsx mounts one note at a time, the one of the *)
(* current route.                                                          *)
(*   note     the component the route mounted                              *)
(*   arr, steps, currentStepIndex, isPlaying, playbackSpeed                *)
(*            the useState cells (latest values)                           *)
(*   view     the cells as the last committed render saw them              *)
(*   timers   the intervals setInterval created and clearInterval has not  *)
(*            cleared: id, the currentStepIndex and steps.length of the    *)
(*            handleNext closure they call, fired since the last commit    *)
(*   timerRef timerRef.current (NoTimer for null)                          *)
(*   lastEvent  the DOM event handled last (history, read by no action)    *)
(*   pendingInput  a text still to be typed into the array field           *)
(*   advances the number of times a tick advanced the index (history)      *)
(***************************************************************************)
VARIABLES note, arr, steps, currentStepIndex, isPlaying, playbackSpeed,
          view, timers, timerRef, lastEvent, pendingInput, advances, dj,
          capacity, error, up, input

vars == <<note, arr, steps, currentStepIndex, isPlaying, playbackSpeed,
          view, timers, timerRef, lastEvent, pendingInput, advances, dj,
          capacity, error, up, input>>

\* The cells, the committed render and the timers of the standard player.
playerVars == <<arr, steps, currentStepIndex, isPlaying, playbackSpeed,
                view, timers, timerRef, lastEvent>>

\* The state of the notes the route did not mount.
Unmounted == "unmounted"

\* No effect has thrown.
NoError == "none"

\* What no handler of the standard player writes.
restVars == <<note, pendingInput, advances, dj, capacity, error, up, input>>

\* What the notes without the standard player leave alone.
stdVars == <<playerVars, pendingInput, advances, capacity, error, input>>

NoTimer == 0

NoInput == <<"none">>

\* Positions of the speed slider (min 100, max 2000, step 100) the model uses.
SliderValues == {100, 1100, 2000}

\* Texts typed into the array field while the player runs.
EditTexts == {<<>>, <<"9">>, <<"1", ",", "9">>, <<"9", ",", "1">>,
              <<"9", "9">>, <<"1", "a">>}

\* Arrays a player on a fixed trace is mounted with.
PlayerArrays == {<<>>, <<9>>, <<1, 9>>, <<9, 1>>, <<2, 2>>, <<1, 3, 2, 4>>}

Cells == [arr |-> arr, steps |-> steps, currentStepIndex |-> currentStepIndex,
          isPlaying |-> isPlaying, playbackSpeed |-> playbackSpeed]

\* The dependency list of the playback effect.
TimerDeps(v) ==
  <<v.isPlaying, v.currentStepIndex, Len(v.steps), v.playbackSpeed>>

ClearInterval(T, id) == {t \in T : t.id # id}

\* The handle setInterval returns: one no pending interval has and
\* timerRef.current does not hold.
FreshId(T, ref) ==
  CHOOSE n \in 1..(Cardinality(T) + 2) :
    /\ n \notin {t.id : t \in T} \cup {ref}
    /\ \A m \in 1..(n - 1) : m \in {t.id : t \in T} \cup {ref}

\* A cleanup that clears nothing.
EffectCleanupNone(T, ref) == T

\* The effect's cleanup: if (timerRef.current) clearInterval(timerRef.current).
EffectCleanup(T, ref) == IF ref # NoTimer THEN ClearInterval(T, ref) ELSE T

\* setInterval(handleNext, playbackSpeed) in the render v.
SetInterval(v, T, id) ==
  T \cup {[id |-> id, idx |-> v.currentStepIndex, len |-> Len(v.steps),
           fired |-> FALSE]}

\* The effect's body for the render v.
EffectBody(v, T, ref) ==
  IF v.isPlaying
  THEN [timers |-> SetInterval(v, T, FreshId(T, ref)), timerRef |-> FreshId(T, ref)]
  ELSE [timers |-> EffectCleanup(T, ref), timerRef |-> ref]

Rearm(T) == {[t EXCEPT !.fired = FALSE] : t \in T}

\* The playback effect at the commit of render new after render old: when a
\* dependency changed, the old cleanup and then the body.
TimerEffect(old, new, T, ref) ==
  IF TimerDeps(old) = TimerDeps(new)
  THEN [timers |-> Rearm(T), timerRef |-> ref]
  ELSE EffectBody(new, EffectCleanup(Rearm(T), ref), ref)

\* The render shows the controls only when steps[currentStepIndex] exists.
\* The Knapsack note has no such guard; a note whose effect threw is gone.
ControlsShown ==
  /\ error = NoError
  /\ \/ note = "knapsack"
     \/ /\ note \in {"nge", "doll"}
        /\ view.currentStepIndex >= 0
        /\ view.currentStepIndex < Len(view.steps)

\* A handleNext that keeps playing at the last index.
handleNextNoStop(cIdx, cLen) ==
  [currentStepIndex |-> IF cIdx < cLen - 1 THEN currentStepIndex + 1
                        ELSE currentStepIndex,
   isPlaying |-> isPlaying]

\* A handlePrev without its guard.
handlePrevUnguarded(cIdx) ==
  [currentStepIndex |-> currentStepIndex - 1, isPlaying |-> isPlaying]

\* A reset that only rewinds.
handleResetIndexOnly == [currentStepIndex |-> 0, isPlaying |-> isPlaying]

\* handleNext of the closure that saw index cIdx and length cLen: the cells
\* currentStepIndex and isPlaying after it.
handleNext(cIdx, cLen) ==
  IF cIdx < cLen - 1
  THEN [currentStepIndex |-> currentStepIndex + 1, isPlaying |-> isPlaying]
  ELSE [currentStepIndex |-> currentStepIndex, isPlaying |-> FALSE]

\* handlePrev of the closure that saw index cIdx.
handlePrev(cIdx) ==
  IF cIdx > 0
  THEN [currentStepIndex |-> currentStepIndex - 1, isPlaying |-> isPlaying]
  ELSE [currentStepIndex |-> currentStepIndex, isPlaying |-> isPlaying]

handleReset == [currentStepIndex |-> 0, isPlaying |-> FALSE]

\* togglePlay of the closure that saw cPlaying.
togglePlay(cPlaying) ==
  [currentStepIndex |-> currentStepIndex, isPlaying |-> ~cPlaying]

\* A generation whose trace depends on the index the player was at.
GenerateEffectFromIndex(a) ==
  [steps |-> IF currentStepIndex > 0 THEN Tail(generateSteps(a))
             ELSE generateSteps(a),
   currentStepIndex |-> 0, isPlaying |-> FALSE]

\* What generateSteps sets after building the trace from the closure's arr.
GenerateEffect(a) ==
  [steps |-> generateSteps(a), currentStepIndex |-> 0, isPlaying |-> FALSE]

\* The cells and the timers a commit leaves: view c, timers and ref te, and
\* the cells in after.
Committed(c, te, after) ==
  /\ view' = c
  /\ timers' = te.timers
  /\ timerRef' = te.timerRef
  /\ arr' = c.arr
  /\ playbackSpeed' = c.playbackSpeed
  /\ steps' = after.steps
  /\ currentStepIndex' = after.currentStepIndex
  /\ isPlaying' = after.isPlaying

\* Commit of the cells c, then the passive effects: the playback effect, and
\* the [arr] effect when setArr was called (a new array object every time).
Commit(c, arrChanged) ==
  Committed(c, TimerEffect(view, c, timers, timerRef),
            IF arrChanged
            THEN GenerateEffect(c.arr)
            ELSE [steps |-> c.steps, currentStepIndex |-> c.currentStepIndex,
                  isPlaying |-> c.isPlaying])

\* A click handler that left currentStepIndex and isPlaying as in r.
Clicked(r) ==
  Commit([Cells EXCEPT !.currentStepIndex = r.currentStepIndex,
                       !.isPlaying = r.isPlaying], FALSE)

\* The note after its first render and its mount effects: generateSteps has
\* run and its updates wait for their render.
Mounted(a) ==
  /\ note = "nge"
  /\ arr = a
  /\ steps = generateSteps(a)
  /\ currentStepIndex = 0
  /\ isPlaying = FALSE
  /\ playbackSpeed = 1000
  /\ view = [arr |-> a, steps |-> <<>>, currentStepIndex |-> 0,
             isPlaying |-> FALSE, playbackSpeed |-> 1000]
  /\ timers = {}
  /\ timerRef = NoTimer
  /\ lastEvent = "mount"
  /\ advances = 0
  /\ dj = Unmounted
  /\ capacity = 0
  /\ error = NoError
  /\ up = Unmounted
  /\ input = Unmounted

\* The standard player while another note is mounted.
PlayerUnmounted ==
  /\ arr = <<>>
  /\ steps = <<>>
  /\ currentStepIndex = 0
  /\ isPlaying = FALSE
  /\ playbackSpeed = 0
  /\ view = Cells
  /\ timers = {}
  /\ timerRef = NoTimer
  /\ lastEvent = Unmounted
  /\ advances = 0
  /\ pendingInput = NoInput
  /\ capacity = 0
  /\ error = NoError
  /\ input = Unmounted

\* The step-forward button (disabled at the last index).
ClickNext ==
  /\ ControlsShown
  /\ view.currentStepIndex # Len(view.steps) - 1
  /\ Clicked(handleNext(view.currentStepIndex, Len(view.steps)))
  /\ lastEvent' = "next"
  /\ UNCHANGED restVars

\* The step-back button (disabled at index 0).
ClickPrev ==
  /\ ControlsShown
  /\ view.currentStepIndex # 0
  /\ Clicked(handlePrev(view.currentStepIndex))
  /\ lastEvent' = "prev"
  /\ UNCHANGED restVars

ClickReset ==
  /\ ControlsShown
  /\ Clicked(handleReset)
  /\ lastEvent' = "reset"
  /\ UNCHANGED restVars

ClickPlay ==
  /\ ControlsShown
  /\ Clicked(togglePlay(view.isPlaying))
  /\ lastEvent' = "toggle"
  /\ UNCHANGED restVars

\* The speed slider: setPlaybackSpeed(2100 - parseInt(e.target.value)).
ChangeSpeed(v) ==
  /\ ControlsShown
  /\ 2100 - v # view.playbackSpeed
  /\ Commit([Cells EXCEPT !.playbackSpeed = 2100 - v], FALSE)
  /\ lastEvent' = "speed"
  /\ UNCHANGED restVars

\* handleArrChange on the typed text val.
handleArrChange(val) ==
  /\ note = "nge"
  /\ ControlsShown
  /\ IF ArrAccepted(val)
     THEN /\ Commit([Cells EXCEPT !.arr = ArrParsed(val)], TRUE)
          /\ lastEvent' = IF isPlaying /\ view.isPlaying
                          THEN "editPlaying" ELSE "edit"
     ELSE /\ UNCHANGED <<arr, steps, currentStepIndex, isPlaying,
                         playbackSpeed, view, timers, timerRef>>
          /\ lastEvent' = "rejected"

EditArr ==
  /\ \E val \in EditTexts : handleArrChange(val)
  /\ UNCHANGED restVars

\* What the callback of an interval sets.
TickSets(r) ==
  /\ currentStepIndex' = r.currentStepIndex
  /\ isPlaying' = r.isPlaying

\* An interval callback that writes into the first Step of the trace.
TickWritingStep(t) ==
  /\ t \in timers
  /\ ~t.fired
  /\ TickSets(handleNext(t.idx, t.len))
  /\ timers' = (timers \ {t}) \cup {[t EXCEPT !.fired = TRUE]}
  /\ steps' = [steps EXCEPT ![1].stack = <<t.idx>>]
  /\ UNCHANGED <<arr, playbackSpeed, view, timerRef, lastEvent>>

\* An interval fires: handleNext of the closure it was created with.
Tick(t) ==
  /\ t \in timers
  /\ ~t.fired
  /\ TickSets(handleNext(t.idx, t.len))
  /\ timers' = (timers \ {t}) \cup {[t EXCEPT !.fired = TRUE]}
  /\ UNCHANGED <<arr, steps, playbackSpeed, view, timerRef, lastEvent>>

TimerTick ==
  /\ \E t \in timers : Tick(t)
  /\ UNCHANGED restVars

\* The render React scheduled for updates queued outside a DOM event.
Render ==
  /\ error = NoError
  /\ Cells # view
  /\ Commit(Cells, FALSE)
  /\ UNCHANGED lastEvent
  /\ UNCHANGED restVars

(***************************************************************************)
(* The player on a fixed trace: every control but the array field.         *)
(***************************************************************************)
\* The player after the array a was typed into the field and the render of
\* its trace was committed, with no playback before.
Typed(a) ==
  /\ note = "nge"
  /\ arr = a
  /\ steps = generateSteps(a)
  /\ currentStepIndex = 0
  /\ isPlaying = FALSE
  /\ playbackSpeed = 1000
  /\ view = Cells
  /\ timers = {}
  /\ timerRef = NoTimer
  /\ lastEvent = "edit"
  /\ advances = 0
  /\ dj = Unmounted
  /\ capacity = 0
  /\ error = NoError
  /\ up = Unmounted
  /\ input = Unmounted

InitPlayer ==
  /\ \E a \in PlayerArrays : Typed(a)
  /\ pendingInput = NoInput

NextPlayer ==
  \/ ClickNext
  \/ ClickPrev
  \/ ClickReset
  \/ ClickPlay
  \/ \E v \in SliderValues : ChangeSpeed(v)
  \/ TimerTick
  \/ Render

SpecPlayer == InitPlayer /\ [][NextPlayer]_vars

(***************************************************************************)
(* Unattended playback: the play button once, at index 0 of a stopped      *)
(* player, and then only the interval and the renders it asks for.  The    *)
(* browser runs a due timer callback and React runs a scheduled render,    *)
(* hence the weak fairness of both.                                        *)
(***************************************************************************)
PlaybackStart ==
  /\ lastEvent = "edit"
  /\ currentStepIndex = 0
  /\ ~isPlaying
  /\ ClickPlay

PlaybackTick ==
  /\ \E t \in timers :
       /\ Tick(t)
       /\ advances' = IF t.idx < t.len - 1 THEN advances + 1 ELSE advances
  /\ UNCHANGED <<note, pendingInput, dj, capacity, error, up, input>>

NextPlayback ==
  \/ PlaybackStart
  \/ PlaybackTick
  \/ Render

SpecPlayback ==
  /\ InitPlayer
  /\ [][NextPlayback]_vars
  /\ WF_vars(PlaybackStart)
  /\ WF_vars(PlaybackTick)
  /\ WF_vars(Render)

(***************************************************************************)
(* Trace generation alone: one text typed into the array field of the      *)
(* mounted note.                                                           *)
(***************************************************************************)
InitGen ==
  /\ Mounted(<<1, 3, 2, 4>>)
  /\ pendingInput \in Texts

TypeArr ==
  /\ pendingInput # NoInput
  /\ handleArrChange(pendingInput)
  /\ pendingInput' = NoInput
  /\ UNCHANGED <<note, advances, dj, capacity, error, up, input>>

NextGen ==
  \/ TypeArr
  \/ Render

SpecGen == InitGen /\ [][NextGen]_vars

(***************************************************************************)
(* Number of Ways to Arrive at Destination                                 *)
(* (Graphs/LC1976-NoWayToArrive.tsx): the simulation of the useMemo and    *)
(* the controls.  Nodes are the code's 0-based ones; NoNode stands for     *)
(* null and Infinity for the JavaScript value.                             *)
(*   dj   stepIndex, isPlaying: the useState cells (latest values);        *)
(*        view: the cells as the last committed render saw them;           *)
(*        timer: TRUE while the timeout of the controls effect is pending; *)
(*        lastEvent: the DOM event handled last (history).                 *)
(***************************************************************************)
n == 7

roads == << <<0, 6, 7>>, <<0, 1, 2>>, <<1, 2, 3>>, <<1, 3, 3>>, <<6, 3, 3>>,
            <<3, 5, 1>>, <<6, 5, 1>>, <<2, 5, 1>>, <<0, 4, 5>>, <<4, 6, 2>> >>

Infinity == -1

NoNode == -2

\* A stable insertion of x into the sequence s sorted by key(_).
RECURSIVE InsertSorted(_, _, _)
InsertSorted(key(_), x, s) ==
  IF s = <<>> THEN <<x>>
  ELSE IF key(x) < key(Head(s)) THEN <<x>> \o s
  ELSE <<Head(s)>> \o InsertSorted(key, x, Tail(s))

\* Array.prototype.sort with the comparator a.key - b.key (stable).
RECURSIVE SortBy(_, _)
SortBy(key(_), s) ==
  IF s = <<>> THEN s
  ELSE InsertSorted(key, Last(s), SortBy(key, SubSeq(s, 1, Len(s) - 1)))

EdgeTo(e) == e.to

PqDist(e) == e.dist

\* The edges roads.forEach pushes to adj[u], in the order of roads.
RECURSIVE EdgesOf(_, _)
EdgesOf(u, k) ==
  IF k > Len(roads) THEN <<>>
  ELSE (IF roads[k][1] = u THEN <<[to |-> roads[k][2], weight |-> roads[k][3]]>>
        ELSE IF roads[k][2] = u THEN <<[to |-> roads[k][1], weight |-> roads[k][3]]>>
        ELSE <<>>) \o EdgesOf(u, k + 1)

\* adj after adj.forEach(list => list.sort((a, b) => a.to - b.to)).
adj == [u \in 0..(n - 1) |-> SortBy(EdgeTo, EdgesOf(u, 1))]

\* addStep: the snapshot pushed to steps.
addStep(st, currNode, currNeigh, type) ==
  [st EXCEPT !.steps = Append(@, [id |-> Len(@), pq |-> SortBy(PqDist, st.pq),
                                   dist |-> st.dist, ways |-> st.ways,
                                   activeNode |-> currNode,
                                   activeNeighbor |-> currNeigh,
                                   highlightType |-> type,
                                   processed |-> st.processed])]

\* A relaxation that drops the paths of equal length.
RelaxFirstPathOnly(st, u, v, newDist) ==
  IF st.dist[v] = Infinity \/ newDist < st.dist[v]
  THEN addStep([st EXCEPT !.dist[v] = newDist, !.ways[v] = st.ways[u],
                          !.pq = Append(@, [node |-> v, dist |-> newDist])],
               u, v, "relax")
  ELSE IF newDist = st.dist[v]
       THEN addStep(st, u, v, "accumulate")
       ELSE addStep(st, u, v, "ignore")

\* The three branches on newDist for the edge from u to v.
Relax(st, u, v, newDist) ==
  IF st.dist[v] = Infinity \/ newDist < st.dist[v]
  THEN addStep([st EXCEPT !.dist[v] = newDist, !.ways[v] = st.ways[u],
                          !.pq = Append(@, [node |-> v, dist |-> newDist])],
               u, v, "relax")
  ELSE IF newDist = st.dist[v]
       THEN addStep([st EXCEPT !.ways[v] = (@ + st.ways[u]) % 1000000007],
                    u, v, "accumulate")
       ELSE addStep(st, u, v, "ignore")

\* for (const edge of adj[u]), from the k-th edge on.
RECURSIVE RelaxEdges(_, _, _, _)
RelaxEdges(st, u, d, k) ==
  IF k > Len(adj[u]) THEN st
  ELSE RelaxEdges(Relax(addStep(st, u, adj[u][k].to, "none"),
                        u, adj[u][k].to, d + adj[u][k].weight),
                  u, d, k + 1)

\* while (pq.length > 0): sort, shift, the pop Step, and the body for the
\* polled entry.
RECURSIVE WhilePq(_)
RECURSIVE Polled(_, _, _)
Polled(st, u, d) ==
  IF st.dist[u] # Infinity /\ d > st.dist[u]
  THEN WhilePq(addStep(st, u, NoNode, "ignore"))
  ELSE WhilePq(RelaxEdges([st EXCEPT !.processed[u] = TRUE], u, d, 1))

WhilePq(st) ==
  IF st.pq = <<>> THEN st
  ELSE Polled(addStep([st EXCEPT !.pq = Tail(SortBy(PqDist, @))],
                      Head(SortBy(PqDist, st.pq)).node, NoNode, "none"),
              Head(SortBy(PqDist, st.pq)).node,
              Head(SortBy(PqDist, st.pq)).dist)

\* The Dijkstra state before the loop: dist[0] = 0, ways[0] = 1, node 0 queued.
DijkstraStart ==
  [dist |-> [u \in 0..(n - 1) |-> IF u = 0 THEN 0 ELSE Infinity],
   ways |-> [u \in 0..(n - 1) |-> IF u = 0 THEN 1 ELSE 0],
   processed |-> [u \in 0..(n - 1) |-> FALSE],
   pq |-> <<[node |-> 0, dist |-> 0]>>,
   steps |-> <<>>]

\* simulation.steps of the useMemo.
simulation ==
  addStep(WhilePq(addStep(DijkstraStart, NoNode, NoNode, "none")),
          NoNode, NoNode, "none").steps

\* The cells of the note.
DjCells == [stepIndex |-> dj.stepIndex, isPlaying |-> dj.isPlaying]

\* The controls effect at the commit of the cells c, after the event ev: when
\* a dependency changed, clearTimeout of the old timer and then the body,
\* which sets a timeout or queues setIsPlaying(false).
DjCommit(c, ev) ==
  dj' = IF c = dj.view
        THEN [dj EXCEPT !.stepIndex = c.stepIndex, !.isPlaying = c.isPlaying,
                        !.lastEvent = ev]
        ELSE [stepIndex |-> c.stepIndex,
              isPlaying |-> c.isPlaying /\ c.stepIndex < Len(simulation) - 1,
              view |-> c,
              timer |-> c.isPlaying /\ c.stepIndex < Len(simulation) - 1,
              lastEvent |-> ev]

\* The note after its first render and its mount effects.
DjMounted ==
  /\ note = "dijkstra"
  /\ dj = [stepIndex |-> 0, isPlaying |-> FALSE,
           view |-> [stepIndex |-> 0, isPlaying |-> FALSE],
           timer |-> FALSE, lastEvent |-> "mount"]
  /\ PlayerUnmounted
  /\ up = Unmounted

\* onClick={() => setStepIndex(0)}
DjClickReset ==
  /\ note = "dijkstra"
  /\ DjCommit([stepIndex |-> 0, isPlaying |-> dj.isPlaying],
              IF dj.isPlaying /\ dj.view.isPlaying
              THEN "resetPlaying" ELSE "reset")
  /\ UNCHANGED <<note, stdVars, up>>

\* onClick={() => setStepIndex(Math.max(0, stepIndex - 1))}
DjClickBack ==
  /\ note = "dijkstra"
  /\ DjCommit([stepIndex |-> Max(0, dj.view.stepIndex - 1),
               isPlaying |-> dj.isPlaying], "back")
  /\ UNCHANGED <<note, stdVars, up>>

\* onClick={() => setIsPlaying(!isPlaying)}
DjClickPlay ==
  /\ note = "dijkstra"
  /\ DjCommit([stepIndex |-> dj.stepIndex, isPlaying |-> ~dj.view.isPlaying],
              "toggle")
  /\ UNCHANGED <<note, stdVars, up>>

\* onClick={() => setStepIndex(Math.min(simulation.steps.length - 1, stepIndex + 1))}
DjClickForward ==
  /\ note = "dijkstra"
  /\ DjCommit([stepIndex |-> Min(Len(simulation) - 1, dj.view.stepIndex + 1),
               isPlaying |-> dj.isPlaying], "forward")
  /\ UNCHANGED <<note, stdVars, up>>

\* The timeout fires: setStepIndex(prev => prev + 1).
DjTimeout ==
  /\ note = "dijkstra"
  /\ dj.timer
  /\ dj' = [dj EXCEPT !.stepIndex = @ + 1, !.timer = FALSE]
  /\ UNCHANGED <<note, stdVars, up>>

\* The render React scheduled for the updates the timeout or the effect queued.
DjRender ==
  /\ note = "dijkstra"
  /\ DjCells # dj.view
  /\ DjCommit(DjCells, dj.lastEvent)
  /\ UNCHANGED <<note, stdVars, up>>

(***************************************************************************)
(* 0/1 Knapsack (DP/0-1Knapsack-Tabulation.tsx): the capacity field and    *)
(* the trace generation of the [items, capacity] effect.  The note has the *)
(* standard player, whose cells are the variables above; the items stay    *)
(* the initial four.                                                       *)
(*   capacity  the useState cell                                           *)
(*   error     the error an effect threw and nothing caught (React then    *)
(*             unmounts the whole application), NoError before             *)
(***************************************************************************)
MAX_CAPACITY_LIMIT == 20

items == << [id |-> 1, weight |-> 1, value |-> 1],
            [id |-> 2, weight |-> 3, value |-> 4],
            [id |-> 3, weight |-> 4, value |-> 5],
            [id |-> 4, weight |-> 5, value |-> 7] >>

\* Values of the capacity field (type="number": empty or a number).
CapacityTexts == {<<>>, <<"0">>, <<"1">>, <<"2">>, <<"7">>, <<"-", "1">>,
                  <<"-", "2">>, <<"9", "9">>}

RECURSIVE TrimStart(_)
TrimStart(s) == IF s # <<>> /\ Head(s) = " " THEN TrimStart(Tail(s)) ELSE s

\* The longest prefix of s made of digits.
RECURSIVE DigitPrefix(_)
DigitPrefix(s) ==
  IF s # <<>> /\ Head(s) \in Digits
  THEN <<Head(s)>> \o DigitPrefix(Tail(s))
  ELSE <<>>

\* The digits parseInt reads after leading blanks and a sign.
IntDigits(t) ==
  IF t # <<>> /\ Head(t) \in {"-", "+"} THEN DigitPrefix(Tail(t))
  ELSE DigitPrefix(t)

\* parseInt(val) || 0
ParseIntOrZero(val) ==
  IF IntDigits(TrimStart(val)) = <<>> THEN 0
  ELSE IF Head(TrimStart(val)) = "-"
       THEN 0 - DecValue(IntDigits(TrimStart(val)))
       ELSE DecValue(IntDigits(TrimStart(val)))

\* A Step of the trace: the cell, the table snapshot, the phase.
KnPush(st, i, j, phase, line) ==
  [st EXCEPT !.steps = Append(@, [i |-> i, j |-> j, dp |-> st.dp,
                                   phase |-> phase, codeLine |-> line])]

\* dp[i][j] for item i and capacity j.
KnValue(dp, i, j) ==
  IF items[i].weight <= j
  THEN Max(items[i].value + dp[i - 1][j - items[i].weight], dp[i - 1][j])
  ELSE dp[i - 1][j]

\* The body of the inner loop at cell (st.i, st.j): the check Step, the
\* update Step showing the table before the write, the write, and j++.
KnCell(st) ==
  [KnPush(KnPush(st, st.i, st.j, "check", "check-weight"), st.i, st.j, "update",
          IF items[st.i].weight <= st.j THEN "calc-max" ELSE "calc-skip")
     EXCEPT !.dp[st.i][st.j] = KnValue(st.dp, st.i, st.j), !.j = @ + 1]

\* for (i = 1; i <= n; i++) for (j = 1; j <= W; j++), from cell (st.i, st.j).
RECURSIVE KnLoop(_, _)
KnLoop(st, W) ==
  IF st.i > Len(items) THEN st
  ELSE IF st.j > W THEN KnLoop([st EXCEPT !.i = @ + 1, !.j = 1], W)
  ELSE KnLoop(KnCell(st), W)

\* Array(W + 1) throws a RangeError for a negative length.
KnThrows(W) == W + 1 < 0

\* The Steps the effect hands to setSteps for the capacity W.
KnapsackSteps(W) ==
  KnPush(KnLoop(KnPush([dp |-> [i \in 0..Len(items) |-> [j \in 0..W |-> 0]],
                        steps |-> <<>>, i |-> 1, j |-> 1],
                       0, 0, "check", "init"),
                W),
         Len(items), W, "update", "return").steps

\* The note after its first render and its mount effects.
KnMounted ==
  /\ note = "knapsack"
  /\ capacity = 7
  /\ error = NoError
  /\ arr = <<>>
  /\ steps = KnapsackSteps(7)
  /\ currentStepIndex = 0
  /\ isPlaying = FALSE
  /\ playbackSpeed = 800
  /\ view = [arr |-> <<>>, steps |-> <<>>, currentStepIndex |-> 0,
             isPlaying |-> FALSE, playbackSpeed |-> 800]
  /\ timers = {}
  /\ timerRef = NoTimer
  /\ lastEvent = "mount"
  /\ advances = 0
  /\ pendingInput = NoInput
  /\ dj = Unmounted
  /\ up = Unmounted
  /\ input = Unmounted

\* The commit of the cells c with the capacity W, whose generation effect
\* threw: the application is unmounted, its effects cleaned up.
KnFailed(c, W) ==
  /\ error' = "RangeError"
  /\ capacity' = W
  /\ view' = c
  /\ timers' = {}
  /\ UNCHANGED <<arr, steps, currentStepIndex, isPlaying, playbackSpeed, timerRef>>

\* The commit of the cells c with the new capacity W and its effects.
KnCommit(c, W) ==
  IF KnThrows(W)
  THEN KnFailed(c, W)
  ELSE /\ Committed(c, TimerEffect(view, c, timers, timerRef),
                    [steps |-> KnapsackSteps(W), currentStepIndex |-> 0,
                     isPlaying |-> FALSE])
       /\ capacity' = W
       /\ UNCHANGED error

\* updateCapacity once num is known: setCapacity(num); handleReset().
SetCapacity(num) ==
  IF num = capacity
  THEN /\ Clicked(handleReset)
       /\ UNCHANGED <<capacity, error>>
  ELSE KnCommit([Cells EXCEPT !.currentStepIndex = 0, !.isPlaying = FALSE], num)

\* updateCapacity on the value val of the field.
updateCapacity(val) ==
  /\ note = "knapsack"
  /\ error = NoError
  /\ SetCapacity(Min(ParseIntOrZero(val), MAX_CAPACITY_LIMIT))
  /\ lastEvent' = "capacity"
  /\ UNCHANGED <<note, pendingInput, advances, dj, up, input>>

EditCapacity == \E val \in CapacityTexts : updateCapacity(val)

(***************************************************************************)
(* The Unique Paths note: the grid, its fill animation and its interval.   *)
(* up holds the state cells (m, n, isPlaying, currentCell, filledCells),   *)
(* fresh (a new Set object queued since the last commit), the committed    *)
(* render view, the pending intervals and timerRef.current.                *)
(***************************************************************************)
NoCell == <<-1, -1>>

\* Values typed into the Rows and the Cols field.
RowValues == {1, 3}

ColValues == {1, 7}

\* Math.min(8, Math.max(2, Number(e.target.value)))
ClampSize(v) == Min(8, Max(2, v))

UpCells(u) ==
  [m |-> u.m, n |-> u.n, isPlaying |-> u.isPlaying,
   currentCell |-> u.currentCell, filledCells |-> u.filledCells]

\* if (timerRef.current) clearInterval(timerRef.current)
UpClear(u) ==
  IF u.timerRef # NoTimer
  THEN [u EXCEPT !.timers = ClearInterval(@, u.timerRef)]
  ELSE u

\* A cleanup of the interval effect that clears nothing.
UpCleanupNone(u) == u

\* The cleanup the interval effect returns.
UpCleanup(u) == UpClear(u)

resetSimulation(u) ==
  [UpClear(u) EXCEPT !.isPlaying = FALSE, !.currentCell = NoCell,
                     !.filledCells = {}, !.fresh = TRUE]

\* Row 0 and column 0 of the grid of the render c.
BaseCells(c) ==
  {<<i, 0>> : i \in 0..(c.m - 1)} \cup {<<0, j>> : j \in 0..(c.n - 1)}

\* A next coordinate that starts a new row at column 2.
NextCellSkipping(c) ==
  LET last == IF c.currentCell # NoCell
                 /\ (c.currentCell[1] > 0 \/ c.currentCell[2] > 0)
              THEN c.currentCell
              ELSE <<1, 0>>
  IN IF last[2] + 1 >= c.n THEN <<last[1] + 1, 2>>
     ELSE <<last[1], last[2] + 1>>

\* The next coordinate after the currentCell of the render c.
NextCell(c) ==
  LET last == IF c.currentCell # NoCell
                 /\ (c.currentCell[1] > 0 \/ c.currentCell[2] > 0)
              THEN c.currentCell
              ELSE <<1, 0>>
  IN IF last[2] + 1 >= c.n THEN <<last[1] + 1, 1>>
     ELSE <<last[1], last[2] + 1>>

\* nextStep of the render c, its updater applied to the latest filledCells.
nextStep(u, c) ==
  IF u.filledCells = {}
  THEN [u EXCEPT !.filledCells = BaseCells(c), !.fresh = TRUE,
                 !.currentCell = <<0, 0>>]
  ELSE IF NextCell(c)[1] < c.m
       THEN [u EXCEPT !.filledCells = @ \cup {NextCell(c)}, !.fresh = TRUE,
                      !.currentCell = NextCell(c)]
       ELSE [UpClear(u) EXCEPT !.isPlaying = FALSE]

\* timerRef.current = setInterval(nextStep, 1000) in the render c.
UpSetInterval(u, c, id) ==
  [u EXCEPT !.timers = @ \cup {[id |-> id, closure |-> c, fired |-> FALSE]},
            !.timerRef = id]

\* The interval effect of the render c: the old cleanup, then the body.
UpTimerEffect(u, c) ==
  IF c.isPlaying
  THEN UpSetInterval(IF c.filledCells = {} THEN nextStep(UpCleanup(u), c)
                     ELSE UpCleanup(u),
                     c, FreshId(UpCleanup(u).timers, u.timerRef))
  ELSE UpClear(UpCleanup(u))

\* The [m, n] effect at the commit of c after old.
UpSizeEffect(u, old, c) ==
  IF c.m # old.m \/ c.n # old.n THEN resetSimulation(u) ELSE u

\* The commit of the latest cells of u: the render, then the effects whose
\* dependencies changed, in the order of their declaration.
UpCommit(u) ==
  LET c == UpCells(u)
      rendered == [u EXCEPT !.view = c, !.fresh = FALSE, !.timers = Rearm(@)]
      sized == UpSizeEffect(rendered, u.view, c)
  IN IF c.isPlaying # u.view.isPlaying \/ u.fresh
     THEN UpTimerEffect(sized, c)
     ELSE sized

UpSettled == UpCells(up) = up.view /\ ~up.fresh

\* The first render with its mount effects: resetSimulation has queued its
\* updates, the interval effect found isPlaying false.
UpMounted ==
  /\ note = "paths"
  /\ up = [m |-> 3, n |-> 7, isPlaying |-> FALSE, currentCell |-> NoCell,
           filledCells |-> {}, fresh |-> TRUE,
           view |-> [m |-> 3, n |-> 7, isPlaying |-> FALSE,
                     currentCell |-> NoCell, filledCells |-> {}],
           timers |-> {}, timerRef |-> NoTimer]
  /\ PlayerUnmounted
  /\ dj = Unmounted

\* onClick={() => setIsPlaying(!isPlaying)}
UpClickPlay ==
  /\ note = "paths"
  /\ up' = UpCommit([up EXCEPT !.isPlaying = ~up.view.isPlaying])
  /\ UNCHANGED <<note, stdVars, dj>>

\* onClick={resetSimulation}
UpClickReset ==
  /\ note = "paths"
  /\ up' = UpCommit(resetSimulation(up))
  /\ UNCHANGED <<note, stdVars, dj>>

\* The Rows field.
UpSetRows ==
  /\ note = "paths"
  /\ \E v \in RowValues : up' = UpCommit([up EXCEPT !.m = ClampSize(v)])
  /\ UNCHANGED <<note, stdVars, dj>>

\* The Cols field.
UpSetCols ==
  /\ note = "paths"
  /\ \E v \in ColValues : up' = UpCommit([up EXCEPT !.n = ClampSize(v)])
  /\ UNCHANGED <<note, stdVars, dj>>

\* A pending interval fires: nextStep of the render that armed it.
UpTick ==
  /\ note = "paths"
  /\ \E t \in up.timers :
       /\ ~t.fired
       /\ up' = nextStep([up EXCEPT !.timers =
                            (@ \ {t}) \cup {[t EXCEPT !.fired = TRUE]}],
                         t.closure)
  /\ UNCHANGED <<note, stdVars, dj>>

\* The render of updates queued by an effect or an interval.
UpRender ==
  /\ note = "paths"
  /\ ~UpSettled
  /\ up' = UpCommit(up)
  /\ UNCHANGED <<note, stdVars, dj>>

(***************************************************************************)
(* The note of the route and its events: the Stack, the Graph and the      *)
(* Unique Paths note.                                                      *)
(***************************************************************************)
Init ==
  \/ /\ Mounted(<<1, 3, 2, 4>>)
     /\ pendingInput = NoInput
  \/ DjMounted
  \/ UpMounted

Next ==
  \/ ClickNext
  \/ ClickPrev
  \/ ClickReset
  \/ ClickPlay
  \/ \E v \in SliderValues : ChangeSpeed(v)
  \/ EditArr
  \/ TimerTick
  \/ Render
  \/ DjClickReset
  \/ DjClickBack
  \/ DjClickPlay
  \/ DjClickForward
  \/ DjTimeout
  \/ DjRender
  \/ UpClickPlay
  \/ UpClickReset
  \/ UpSetRows
  \/ UpSetCols
  \/ UpTick
  \/ UpRender

Spec == Init /\ [][Next]_vars

(***************************************************************************)
(* The Knapsack note: its capacity field and its player.                   *)
(***************************************************************************)
NextKnapsack ==
  \/ EditCapacity
  \/ ClickNext
  \/ ClickPrev
  \/ ClickReset
  \/ ClickPlay
  \/ TimerTick
  \/ Render

SpecKnapsack == KnMounted /\ [][NextKnapsack]_vars

(***************************************************************************)
(* Russian Doll Envelopes (DP/Russian-Doll-Envelopes-LC354.tsx): the text  *)
(* field, parseAndGenerate and the O(n^2) trace.  The note has the         *)
(* standard player; input.inputStr is the text of the field.               *)
(***************************************************************************)
MAX_ENV_COUNT == 10


DefaultEnvelopes ==
  <<"[", "5", ",", "4", "]", ",", "[", "6", ",", "4", "]", ",",
    "[", "6", ",", "7", "]", ",", "[", "2", ",", "3", "]">>

\* k pairs [1,1],[2,2],...: a text of more pairs than MAX_ENV_COUNT.
RECURSIVE ManyPairs(_)
ManyPairs(k) ==
  IF k = 0 THEN <<>>
  ELSE (IF k = 1 THEN <<>> ELSE ManyPairs(k - 1) \o <<",">>)
       \o <<"[", "1", ",", "2", "]">>

\* Texts typed into the envelopes field.
RdTexts ==
  {<<>>, <<"a">>, <<"[", "1", ",", "2">>, <<"[", "1", ",", "]">>,
   <<"[", "-", "1", ",", "2", "]">>, <<"1", ",", "2">>,
   <<"[", " ", "1", ",", "2", " ", "]">>,
   <<"[", "2", ",", "3", "]", "[", "1", ",", "1", "]">>,
   <<"a", "[", "3", ",", "3", "]", ",", "[", "1", "2", ",", "9", "]">>,
   DefaultEnvelopes}

\* Texts of many pairs.
RdLongTexts == {ManyPairs(MAX_ENV_COUNT), ManyPairs(MAX_ENV_COUNT + 1)}

\* inputStr.replace(/\s/g, "")
RdClean(s) == SelectSeq(s, LAMBDA c : c # " ")

\* The length of the run of digits of s that starts at position p.
RECURSIVE DigitRun(_, _)
DigitRun(s, p) ==
  IF p <= Len(s) /\ s[p] \in Digits THEN 1 + DigitRun(s, p + 1) ELSE 0

\* /\[(\d+),(\d+)\]/ matched at position p of s, with the digit runs of
\* lengths d1 and d2.
RdMatches(s, p, d1, d2) ==
  /\ p + 2 + d1 + d2 <= Len(s)
  /\ s[p] = "["
  /\ d1 >= 1
  /\ s[p + 1 + d1] = ","
  /\ d2 >= 1
  /\ s[p + 2 + d1 + d2] = "]"

\* regex.exec in a loop from position p: the pairs of the matches.
RECURSIVE RdPairs(_, _)
RdPairs(s, p) ==
  IF p > Len(s) THEN <<>>
  ELSE IF p + 1 <= Len(s)
          /\ RdMatches(s, p, DigitRun(s, p + 1),
                       DigitRun(s, p + 2 + DigitRun(s, p + 1)))
       THEN << <<DecValue(SubSeq(s, p + 1, p + DigitRun(s, p + 1))),
                 DecValue(SubSeq(s, p + 2 + DigitRun(s, p + 1),
                                 p + 1 + DigitRun(s, p + 1)
                                 + DigitRun(s, p + 2 + DigitRun(s, p + 1))))>> >>
            \o RdPairs(s, p + 3 + DigitRun(s, p + 1)
                          + DigitRun(s, p + 2 + DigitRun(s, p + 1)))
       ELSE RdPairs(s, p + 1)

\* pairs.map((p, idx) => ({ w: p[0], h: p[1], id: idx }))
RdEnvelopes(pairs) ==
  [k \in 1..Len(pairs) |-> [w |-> pairs[k][1], h |-> pairs[k][2], id |-> k - 1]]

\* The comparator of envs.sort: width ascending, then height ascending.
RdBefore(a, b) == a.w < b.w \/ (a.w = b.w /\ a.h < b.h)

RECURSIVE RdInsert(_, _)
RdInsert(x, s) ==
  IF s = <<>> THEN <<x>>
  ELSE IF RdBefore(x, Head(s)) THEN <<x>> \o s
  ELSE <<Head(s)>> \o RdInsert(x, Tail(s))

\* envs.sort(...): stable.
RECURSIVE RdSort(_)
RdSort(s) ==
  IF s = <<>> THEN s
  ELSE RdInsert(Last(s), RdSort(SubSeq(s, 1, Len(s) - 1)))

\* newSteps.push of the loop state st.
RdPush(st, phase, i, j, fits, codeLine) ==
  [st EXCEPT !.steps = Append(@, [envelopes |-> st.envs, dp |-> st.dp,
                                  phase |-> phase, i |-> i, j |-> j,
                                  fits |-> fits, codeLine |-> codeLine])]

RdFits(st) ==
  /\ st.envs[st.j + 1].w < st.envs[st.i + 1].w
  /\ st.envs[st.j + 1].h < st.envs[st.i + 1].h

\* The body of the inner loop for (st.i, st.j): the compare Step, then the
\* update, the no-improvement or the does-not-fit Step.
RdInner(st) ==
  IF RdFits(st)
  THEN IF st.dp[st.j + 1] + 1 > st.dp[st.i + 1]
       THEN RdPush([RdPush(st, "compare", st.i, st.j, "true", "check-fit")
                      EXCEPT !.dp[st.i + 1] = st.dp[st.j + 1] + 1],
                   "update", st.i, st.j, "true", "update-dp")
       ELSE RdPush(RdPush(st, "compare", st.i, st.j, "true", "check-fit"),
                   "compare", st.i, st.j, "true", "update-dp")
  ELSE RdPush(RdPush(st, "compare", st.i, st.j, "false", "check-fit"),
              "compare", st.i, st.j, "false", "check-fit")

\* for i, for j < i; st.j = -1 marks the start of an outer iteration.
RECURSIVE RdLoop(_)
RdLoop(st) ==
  IF st.i >= Len(st.envs) THEN st
  ELSE IF st.j = -1
       THEN RdLoop([RdPush(st, "outer_loop", st.i, -1, "null", "loop-i")
                      EXCEPT !.j = 0])
       ELSE IF st.j >= st.i
            THEN RdLoop([st EXCEPT !.i = @ + 1, !.j = -1])
            ELSE RdLoop([RdInner(st) EXCEPT !.j = @ + 1])

\* The loop state after the two sort Steps.
RdStart(initialEnvelopes) ==
  RdPush([RdPush([steps |-> <<>>, envs |-> initialEnvelopes,
                  dp |-> [k \in 1..Len(initialEnvelopes) |-> 1],
                  i |-> 0, j |-> -1],
                 "sort", -1, -1, "null", "init")
            EXCEPT !.envs = RdSort(initialEnvelopes)],
         "sort", -1, -1, "null", "sort")

RdGenerateSteps(initialEnvelopes) ==
  RdPush(RdLoop(RdStart(initialEnvelopes)),
         "complete", -1, -1, "null", "return").steps

\* An effect that regenerates from whatever was parsed.
RdEffectAlways(pairs, c) ==
  [steps |-> RdGenerateSteps(RdEnvelopes(pairs)), currentStepIndex |-> 0,
   isPlaying |-> FALSE]

\* What parseAndGenerate leaves of the cells c, given the parsed pairs.
RdEffect(pairs, c) ==
  IF pairs = <<>>
  THEN [steps |-> c.steps, currentStepIndex |-> c.currentStepIndex,
        isPlaying |-> c.isPlaying]
  ELSE [steps |-> RdGenerateSteps(RdEnvelopes(pairs)), currentStepIndex |-> 0,
        isPlaying |-> FALSE]

parseAndGenerate(text, c) == RdEffect(RdPairs(RdClean(text), 1), c)

\* The note after its first render and its mount effects.
RdMounted ==
  /\ note = "doll"
  /\ input = [inputStr |-> DefaultEnvelopes]
  /\ arr = <<>>
  /\ steps = RdGenerateSteps(RdEnvelopes(RdPairs(RdClean(DefaultEnvelopes), 1)))
  /\ currentStepIndex = 0
  /\ isPlaying = FALSE
  /\ playbackSpeed = 1000
  /\ view = [arr |-> <<>>, steps |-> <<>>, currentStepIndex |-> 0,
             isPlaying |-> FALSE, playbackSpeed |-> 1000]
  /\ timers = {}
  /\ timerRef = NoTimer
  /\ lastEvent = "mount"
  /\ advances = 0
  /\ pendingInput = NoInput
  /\ dj = Unmounted
  /\ capacity = 0
  /\ error = NoError
  /\ up = Unmounted

\* onChange={(e) => setInputStr(e.target.value)} with a new text, the commit
\* and the [inputStr] effect.
RdSetInputStr(text) ==
  /\ note = "doll"
  /\ ControlsShown
  /\ text # input.inputStr
  /\ input' = [inputStr |-> text]
  /\ Committed(Cells, TimerEffect(view, Cells, timers, timerRef),
               parseAndGenerate(text, Cells))
  /\ lastEvent' = IF RdPairs(RdClean(text), 1) = <<>> THEN "declined" ELSE "edit"
  /\ UNCHANGED <<note, pendingInput, advances, dj, capacity, error, up>>

RdEditInput == \E text \in RdTexts : RdSetInputStr(text)

NextDoll ==
  \/ RdEditInput
  \/ ClickNext
  \/ ClickPrev
  \/ ClickReset
  \/ ClickPlay
  \/ TimerTick
  \/ Render

SpecDoll == RdMounted /\ [][NextDoll]_vars

(***************************************************************************)
(* The Russian Doll note fed with long texts and stepped by hand.          *)
(***************************************************************************)
RdEditLong == \E text \in RdLongTexts : RdSetInputStr(text)

NextDollInput ==
  \/ RdEditLong
  \/ ClickNext
  \/ Render

SpecDollInput == RdMounted /\ [][NextDollInput]_vars

(***************************************************************************)
(* The notes below have the standard player and a generation effect on     *)
(* their input; input holds the input cells under the names of the note.   *)
(***************************************************************************)
\* The note nm after its first render and its mount effects: the effect has
\* generated the trace t from the initial array a and input inp.
StdMounted(nm, a, inp, t) ==
  /\ note = nm
  /\ input = inp
  /\ arr = a
  /\ steps = t
  /\ currentStepIndex = 0
  /\ isPlaying = FALSE
  /\ playbackSpeed = 1000
  /\ view = [arr |-> a, steps |-> <<>>, currentStepIndex |-> 0,
             isPlaying |-> FALSE, playbackSpeed |-> 1000]
  /\ timers = {}
  /\ timerRef = NoTimer
  /\ lastEvent = "mount"
  /\ advances = 0
  /\ dj = Unmounted
  /\ capacity = 0
  /\ error = NoError
  /\ up = Unmounted

\* An input event that sets the input cells to inp: the commit of the cells
\* c and the generation effect, which leaves the trace t at index 0.
StdRegenerate(inp, c, t) ==
  /\ input' = inp
  /\ Committed(c, TimerEffect(view, c, timers, timerRef),
               [steps |-> t, currentStepIndex |-> 0, isPlaying |-> FALSE])
  /\ lastEvent' = "edit"
  /\ UNCHANGED <<note, advances, dj, capacity, error, up>>

\* An input event its handler ignored.
StdRejected ==
  /\ lastEvent' = "rejected"
  /\ UNCHANGED <<arr, steps, currentStepIndex, isPlaying, playbackSpeed, view,
                 timers, timerRef, note, advances, dj, capacity, error, up,
                 input>>

(***************************************************************************)
(* Longest Substring Without Repeating Characters                          *)
(* (Sliding-Window/LongestSubstring.tsx): the trace of the sliding window. *)
(***************************************************************************)
MAX_STRING_LENGTH == 20

MaxStringLen == 4

LsChars == {"a", "b"}

DefaultString == <<"a", "b", "c", "a", "b", "c", "b", "b">>

\* Texts typed into the string field: short ones, and one of more than
\* MAX_STRING_LENGTH characters.
LsTexts ==
  UNION {[1..k -> LsChars] : k \in 0..MaxStringLen}
    \cup {[k \in 1..(MAX_STRING_LENGTH + 1) |-> "a"]}

EmptyMap == [c \in {} |-> 0]

LsPush(w, st, phase, codeLine) ==
  [w EXCEPT !.steps = Append(@, [st |-> st, ed |-> w.ed, map |-> w.map,
                                 ans |-> w.ans, phase |-> phase,
                                 codeLine |-> codeLine])]

\* A Step of the duplicate branch: with the index and the character of the
\* duplicate.
LsPushDuplicate(w, st, phase, codeLine, char) ==
  [w EXCEPT !.steps = Append(@, [st |-> st, ed |-> w.ed, map |-> w.map,
                                 ans |-> w.ans, phase |-> phase,
                                 codeLine |-> codeLine,
                                 duplicateIndex |-> w.map[char],
                                 currentDuplicateValue |-> char])]

\* A duplicate branch that moves st to prevIndex + 1 even when that is
\* left of st.
LsDuplicateBackwards(w, char) ==
  [LsPushDuplicate(LsPushDuplicate(w, w.st, "duplicate_found", "check-map", char),
                   w.map[char] + 1, "move_start", "update-st", char)
     EXCEPT !.st = w.map[char] + 1]

\* The duplicate branch for the character char: the duplicate_found and the
\* move_start Step, then st = newStart.
LsDuplicate(w, char) ==
  [LsPushDuplicate(LsPushDuplicate(w, w.st, "duplicate_found", "check-map", char),
                   Max(w.st, w.map[char] + 1), "move_start", "update-st", char)
     EXCEPT !.st = Max(w.st, w.map[char] + 1)]

\* map[char] = ed and the update_map Step.
LsPutMap(w, char) ==
  LsPush([w EXCEPT !.map = (char :> w.ed) @@ w.map], w.st, "update_map", "put-map")

\* The update_ans Step with newAns, then ans = newAns.
LsUpdateAns(w) ==
  LsPush([w EXCEPT !.ans = Max(w.ans, w.ed - w.st + 1)],
         w.st, "update_ans", "calc-ans")

\* The body of the loop for the window end w.ed.
LsBody(w, char) ==
  LsUpdateAns(LsPutMap(IF char \in DOMAIN w.map
                       THEN LsDuplicate(LsPush(w, w.st, "scan", "loop-start"), char)
                       ELSE LsPush(w, w.st, "scan", "loop-start"),
                       char))

\* for (let ed = 0; ed < n; ed++)
RECURSIVE LsLoop(_, _)
LsLoop(w, s) ==
  IF w.ed >= Len(s) THEN w
  ELSE LsLoop([LsBody(w, s[w.ed + 1]) EXCEPT !.ed = @ + 1], s)

\* The loop state after the initial Step.
LsStart ==
  [LsPush([steps |-> <<>>, st |-> 0, ed |-> -1, ans |-> 0, map |-> EmptyMap],
          0, "scan", "init")
     EXCEPT !.ed = 0]

\* The final Step after the loop left w, for a string of len characters.
LsFinal(w, len) == LsPush([w EXCEPT !.ed = len - 1], w.st, "scan", "return").steps

\* The trace the [inputString] effect hands to setSteps.
LsSteps(s) == LsFinal(LsLoop(LsStart, s), Len(s))

LsMounted ==
  /\ StdMounted("substring", <<>>, [inputString |-> DefaultString],
                LsSteps(DefaultString))
  /\ pendingInput = NoInput

\* handleStringChange(val) with a new text.
handleStringChange(val) ==
  /\ note = "substring"
  /\ val # input.inputString
  /\ IF Len(val) <= MAX_STRING_LENGTH
     THEN StdRegenerate([inputString |-> val],
                        [Cells EXCEPT !.currentStepIndex = 0, !.isPlaying = FALSE],
                        LsSteps(val))
     ELSE StdRejected

LsEdit ==
  /\ \E val \in LsTexts : handleStringChange(val)
  /\ UNCHANGED pendingInput

(***************************************************************************)
(* Binary search on the answer: Split Array Largest Sum                    *)
(* (Binary-Search/Leetcode-410-Split-Array-Largest-Sum.tsx) and Capacity   *)
(* To Ship Packages (Binary-Search/Leetcode-1011-...tsx).  The user's next *)
(* input events wait in pendingInput: a text for the array field and one   *)
(* for the number field.                                                   *)
(***************************************************************************)
MaxArrTextLen == 5

ArrTextChars == {"2", "7", ","}

\* Texts typed into an array field: every short text of digits and commas,
\* one with inner blanks and one with a letter.
ArrTexts ==
  UNION {[1..k -> ArrTextChars] : k \in 0..MaxArrTextLen}
    \cup {<<"2", " ", ",", " ", "7">>, <<"2", " ", "7">>, <<"2", "a">>}

\* Values typed into a number field.
NumTexts == {<<"0">>, <<"2">>, <<"3">>}

PendingInputs == [text : ArrTexts, num : NumTexts]

\* /^[\d, ]*$/.test(val)
DigitsCommasBlanks(val) == \A k \in 1..Len(val) : val[k] \in Digits \cup {",", " "}

\* parts.length <= maxSize && parts.every(n => n <= maxVal), NaN failing it.
PartsWithin(parts, maxSize, maxVal) ==
  /\ Len(parts) <= maxSize
  /\ \A k \in 1..Len(parts) : ~parts[k].nan /\ parts[k].val <= maxVal

PartValues(parts) == [k \in 1..Len(parts) |-> parts[k].val]

\* parseInt(e.target.value) || 1
ParseIntOrOne(val) == IF ParseIntOrZero(val) = 0 THEN 1 ELSE ParseIntOrZero(val)

RECURSIVE SumSeq(_)
SumSeq(s) == IF s = <<>> THEN 0 ELSE Head(s) + SumSeq(Tail(s))

\* Math.max(...s) and Math.min(...s) of a non-empty s.
MaxSeq(s) == CHOOSE x \in {s[k] : k \in 1..Len(s)} : \A k \in 1..Len(s) : s[k] <= x

MinSeq(s) == CHOOSE x \in {s[k] : k \in 1..Len(s)} : \A k \in 1..Len(s) : x <= s[k]

\* A midpoint that rounds to the nearest integer, halves up.
RoundMid(lo, hi) == (2 * lo + (hi - lo) + 1) \div 2

\* Math.floor(lo + (hi - lo) / 2): lo + (hi - lo) / 2 is the exact number of
\* halves 2 * lo + (hi - lo), and floor rounds it down.
FloorMid(lo, hi) == (2 * lo + (hi - lo)) \div 2

MAX_VAL_410 == 100

MAX_ARR_SIZE_410 == 12

\* A Step of the check function: the bounds b and the check state c.
SaStep(b, c, line) ==
  [lo |-> b.lo, hi |-> b.hi, mid |-> b.mid, res |-> b.res,
   phase |-> "check_process", checkIndex |-> c.i, currentSum |-> c.currentSum,
   partitionCount |-> c.partitions, splitIndices |-> c.splits,
   codeLine |-> line]

\* The element c.i of the check: the check-loop Step, then the split or the
\* add with its Step.
SaCheckElement(c, val, b) ==
  IF c.currentSum + val > b.mid
  THEN [c EXCEPT !.partitions = @ + 1, !.splits = Append(@, c.i),
                 !.currentSum = val,
                 !.steps = Append(Append(@, SaStep(b, c, "check-loop")),
                                  SaStep(b, [c EXCEPT !.partitions = @ + 1,
                                                      !.splits = Append(@, c.i),
                                                      !.currentSum = val],
                                         "check-split"))]
  ELSE [c EXCEPT !.currentSum = @ + val,
                 !.steps = Append(Append(@, SaStep(b, c, "check-loop")),
                                  SaStep(b, [c EXCEPT !.currentSum = @ + val],
                                         "check-add"))]

\* for (let i = 0; i < n; i++) of the check.
RECURSIVE SaCheckLoop(_, _, _)
SaCheckLoop(c, a, b) ==
  IF c.i >= Len(a) THEN c
  ELSE SaCheckLoop([SaCheckElement(c, a[c.i + 1], b) EXCEPT !.i = @ + 1], a, b)

\* The check of mid from its first Step on.
SaCheck(w, a, b) ==
  SaCheckLoop([i |-> 0, partitions |-> 1, currentSum |-> 0, splits |-> <<>>,
               steps |-> Append(w.steps,
                                [SaStep(b, [i |-> -1, currentSum |-> 0,
                                            partitions |-> 1, splits |-> <<>>],
                                        "calc-mid")
                                   EXCEPT !.phase = "check_start"])],
              a, b)

\* The check_result Step and the update of the bounds after the check c.
SaUpdate(b, c, k) ==
  IF c.partitions <= k
  THEN [lo |-> b.lo, hi |-> b.mid - 1, res |-> b.mid,
        steps |-> Append(Append(c.steps,
                    [SaStep(b, [c EXCEPT !.i = @ - 1], "check-return")
                       EXCEPT !.phase = "check_result"] @@ [isFeasible |-> TRUE]),
                    [lo |-> b.lo, hi |-> b.mid - 1, mid |-> b.mid, res |-> b.mid,
                     phase |-> "search", splitIndices |-> c.splits,
                     codeLine |-> "update-hi"])]
  ELSE [lo |-> b.mid + 1, hi |-> b.hi, res |-> b.res,
        steps |-> Append(Append(c.steps,
                    [SaStep(b, [c EXCEPT !.i = @ - 1], "check-return")
                       EXCEPT !.phase = "check_result"] @@ [isFeasible |-> FALSE]),
                    [lo |-> b.mid + 1, hi |-> b.hi, mid |-> b.mid, res |-> b.res,
                     phase |-> "search", splitIndices |-> c.splits,
                     codeLine |-> "update-lo"])]

\* One iteration of the search with the midpoint mid.
SaIterate(w, a, k, b) == SaUpdate(b, SaCheck(w, a, b), k)

\* while (lo <= hi)
RECURSIVE SaSearch(_, _, _)
SaSearch(w, a, k) ==
  IF w.lo > w.hi THEN w
  ELSE SaSearch(SaIterate(w, a, k, [lo |-> w.lo, hi |-> w.hi, res |-> w.res,
                                    mid |-> FloorMid(w.lo, w.hi)]),
                a, k)

\* The Steps before and after the loop.
SaInitStep(lo, hi) ==
  [lo |-> lo, hi |-> hi, mid |-> -1, res |-> -1, phase |-> "search",
   checkIndex |-> -1, currentSum |-> 0, partitionCount |-> 0,
   splitIndices |-> <<>>, codeLine |-> "init"]

SaFinal(w) ==
  Append(w.steps, [lo |-> w.lo, hi |-> w.hi, mid |-> -1, res |-> w.res,
                   phase |-> "search", splitIndices |-> <<>>,
                   codeLine |-> "return-res"])

\* The trace of the empty array: lo = Math.max() is -Infinity, mid is NaN and
\* the loop ends after one iteration.  notNumbers maps the fields that hold
\* no integer to what they hold; those fields are 0 in the record.
SaEmptySteps(k) ==
  LET inf == [lo |-> "-Infinity"]
      nan == [lo |-> "-Infinity", mid |-> "NaN"]
      after == IF 1 <= k
               THEN [lo |-> "-Infinity", mid |-> "NaN", hi |-> "NaN", res |-> "NaN"]
               ELSE [lo |-> "NaN", mid |-> "NaN"]
  IN << SaInitStep(0, 0) @@ [notNumbers |-> inf],
        [SaStep([lo |-> 0, hi |-> 0, mid |-> 0, res |-> -1],
                [i |-> -1, currentSum |-> 0, partitions |-> 1, splits |-> <<>>],
                "calc-mid") EXCEPT !.phase = "check_start"]
          @@ [notNumbers |-> nan],
        [SaStep([lo |-> 0, hi |-> 0, mid |-> 0, res |-> -1],
                [i |-> -1, currentSum |-> 0, partitions |-> 1, splits |-> <<>>],
                "check-return") EXCEPT !.phase = "check_result"]
          @@ [isFeasible |-> 1 <= k, notNumbers |-> nan],
        [lo |-> 0, hi |-> 0, mid |-> 0, res |-> IF 1 <= k THEN 0 ELSE -1,
         phase |-> "search", splitIndices |-> <<>>,
         codeLine |-> IF 1 <= k THEN "update-hi" ELSE "update-lo",
         notNumbers |-> after],
        [lo |-> 0, hi |-> 0, mid |-> -1, res |-> IF 1 <= k THEN 0 ELSE -1,
         phase |-> "search", splitIndices |-> <<>>, codeLine |-> "return-res",
         notNumbers |-> [f \in DOMAIN after \ {"mid"} |-> after[f]]] >>

\* generateSteps of the Split Array note for the array a and k.
SaSteps(a, k) ==
  IF a = <<>> THEN SaEmptySteps(k)
  ELSE SaFinal(SaSearch([lo |-> MaxSeq(a), hi |-> SumSeq(a), res |-> -1,
                         steps |-> <<SaInitStep(MaxSeq(a), SumSeq(a))>>], a, k))

SaMounted ==
  /\ StdMounted("split", <<7, 2, 5, 10, 8>>, [k |-> 2],
                SaSteps(<<7, 2, 5, 10, 8>>, 2))
  /\ pendingInput \in PendingInputs

\* handleArrChange of the Split Array note on the pending text.
SaHandleArrChange ==
  /\ note = "split"
  /\ pendingInput.text # NoInput
  /\ pendingInput' = [pendingInput EXCEPT !.text = NoInput]
  /\ IF /\ DigitsCommasBlanks(pendingInput.text)
        /\ PartsWithin(NumberParts(pendingInput.text), MAX_ARR_SIZE_410, MAX_VAL_410)
     THEN /\ StdRegenerate(input,
                [Cells EXCEPT !.arr = PartValues(NumberParts(pendingInput.text))],
                SaSteps(PartValues(NumberParts(pendingInput.text)), input.k))
     ELSE StdRejected

\* The k field: setK(Math.min(Math.max(1, val), arr.length)).
SaSetK ==
  /\ note = "split"
  /\ pendingInput.num # NoInput
  /\ pendingInput' = [pendingInput EXCEPT !.num = NoInput]
  /\ IF Min(Max(1, ParseIntOrOne(pendingInput.num)), Len(arr)) # input.k
     THEN StdRegenerate([k |-> Min(Max(1, ParseIntOrOne(pendingInput.num)), Len(arr))],
                        Cells,
                        SaSteps(arr, Min(Max(1, ParseIntOrOne(pendingInput.num)),
                                         Len(arr))))
     ELSE StdRejected

MAX_ARR_SIZE_1011 == 15

MAX_VAL_1011 == 50

DefaultWeights == <<1, 2, 3, 4, 5, 6, 7, 8, 9, 10>>

\* A Step of the canShip simulation: the bounds b, the simulation state c and
\* the number of packages processed.
ShStep(b, c, phase, processed, line) ==
  [low |-> b.low, high |-> b.high, mid |-> b.mid, ans |-> b.ans,
   phase |-> phase, currentDay |-> c.day, currentLoad |-> c.currWeight,
   processedPackages |-> [k \in 1..processed |-> k - 1],
   dayLoads |-> c.allDayLoads, codeLine |-> line]

\* A loading that opens a new day already when the load reaches the capacity.
ShLoadedStrict(c, wt, mid) ==
  IF c.currWeight + wt < mid
  THEN [c EXCEPT !.currWeight = @ + wt, !.allDayLoads[c.day] = Append(@, wt)]
  ELSE [c EXCEPT !.day = @ + 1, !.currWeight = wt,
                 !.allDayLoads = Append(@, <<wt>>)]

\* The simulation state once the package wt is loaded: on the current day if
\* it fits, else on a new one.
ShLoaded(c, wt, mid) ==
  IF c.currWeight + wt <= mid
  THEN [c EXCEPT !.currWeight = @ + wt, !.allDayLoads[c.day] = Append(@, wt)]
  ELSE [c EXCEPT !.day = @ + 1, !.currWeight = wt,
                 !.allDayLoads = Append(@, <<wt>>)]

\* The Steps of package c.i: sim-check, then sim-add or sim-new-day with the
\* state c2 after loading, then the failure when the load exceeds mid.
ShRecorded(c, c2, b) ==
  [c2 EXCEPT
     !.possible = c2.currWeight <= b.mid,
     !.steps =
        Append(Append(c.steps, ShStep(b, c, "sim_load", c.i, "sim-check")),
               IF c2.day = c.day
               THEN ShStep(b, c2, "sim_load", c.i + 1, "sim-add")
               ELSE ShStep(b, c2, "sim_overflow", c.i + 1, "sim-new-day"))
        \o (IF c2.currWeight > b.mid
            THEN <<ShStep(b, c2, "sim_fail", c.i + 1, "sim-fail-weight")>>
            ELSE <<>>)]

\* for (let i = 0; i < weights.length; i++) with its break.
RECURSIVE ShSimLoop(_, _, _)
ShSimLoop(c, weights, b) ==
  IF c.i >= Len(weights) \/ ~c.possible THEN c
  ELSE ShSimLoop([ShRecorded(c, ShLoaded(c, weights[c.i + 1], b.mid), b)
                    EXCEPT !.i = @ + 1],
                 weights, b)

\* The simulation of capacity b.mid from its sim_start Step on.
ShSim(w, weights, b) ==
  ShSimLoop([i |-> 0, currWeight |-> 0, day |-> 1, possible |-> TRUE,
             allDayLoads |-> << <<>> >>,
             steps |-> Append(w.steps,
                              ShStep(b, [day |-> 1, currWeight |-> 0,
                                         allDayLoads |-> << <<>> >>],
                                     "sim_start", 0, "calc-mid"))],
            weights, b)

\* The bounds and the Steps after the simulation c of b.mid.
ShUpdate(b, c, n0, days) ==
  IF c.possible
  THEN IF c.day <= days
       THEN [low |-> b.low, high |-> b.mid - 1, ans |-> b.mid,
             steps |-> Append(c.steps,
                              ShStep([b EXCEPT !.ans = b.mid], c, "sim_success",
                                     n0, "check-success"))]
       ELSE [low |-> b.mid + 1, high |-> b.high, ans |-> b.ans,
             steps |-> Append(c.steps,
                              ShStep(b, c, "sim_fail", n0, "check-fail-days"))]
  ELSE [low |-> b.mid + 1, high |-> b.high, ans |-> b.ans, steps |-> c.steps]

ShIterate(w, weights, days, b) ==
  ShUpdate(b, ShSim(w, weights, b), Len(weights), days)

\* while (low <= high)
RECURSIVE ShSearch(_, _, _)
ShSearch(w, weights, days) ==
  IF w.low > w.high THEN w
  ELSE ShSearch(ShIterate(w, weights, days,
                          [low |-> w.low, high |-> w.high, ans |-> w.ans,
                           mid |-> FloorMid(w.low, w.high)]),
                weights, days)

\* The Steps before and after the loop.
ShEdgeStep(low, high, mid, ans, phase, line) ==
  [low |-> low, high |-> high, mid |-> mid, ans |-> ans, phase |-> phase,
   currentDay |-> 0, currentLoad |-> 0, processedPackages |-> <<>>,
   dayLoads |-> <<>>, codeLine |-> line]

ShFinal(w) ==
  Append(w.steps, ShEdgeStep(w.low, w.high, -1, w.ans, "complete", "return"))

\* The trace of no weights: low = Math.min() is Infinity and the loop is
\* never entered.  notNumbers as in SaEmptySteps.
ShEmptySteps ==
  << ShEdgeStep(0, 0, 0, 0, "search", "init") @@ [notNumbers |-> [low |-> "Infinity"]],
     ShEdgeStep(0, 0, -1, 0, "complete", "return")
       @@ [notNumbers |-> [low |-> "Infinity"]] >>

\* generateSteps of the Ship Packages note.
ShSteps(weights, days) ==
  IF weights = <<>> THEN ShEmptySteps
  ELSE ShFinal(ShSearch([low |-> MinSeq(weights), high |-> SumSeq(weights),
                         ans |-> 0,
                         steps |-> <<ShEdgeStep(MinSeq(weights), SumSeq(weights),
                                                0, 0, "search", "init")>>],
                        weights, days))

ShMounted ==
  /\ StdMounted("ship", <<>>, [weights |-> DefaultWeights, days |-> 5],
                ShSteps(DefaultWeights, 5))
  /\ pendingInput \in PendingInputs

\* handleWeightChange on the pending text.
handleWeightChange ==
  /\ note = "ship"
  /\ pendingInput.text # NoInput
  /\ pendingInput' = [pendingInput EXCEPT !.text = NoInput]
  /\ IF /\ DigitsCommasBlanks(pendingInput.text)
        /\ PartsWithin(NumberParts(pendingInput.text), MAX_ARR_SIZE_1011, MAX_VAL_1011)
     THEN StdRegenerate(
            [input EXCEPT !.weights = PartValues(NumberParts(pendingInput.text))],
            Cells,
            ShSteps(PartValues(NumberParts(pendingInput.text)), input.days))
     ELSE StdRejected

\* The days field: setDays(Math.max(1, parseInt(e.target.value) || 1)).
ShSetDays ==
  /\ note = "ship"
  /\ pendingInput.num # NoInput
  /\ pendingInput' = [pendingInput EXCEPT !.num = NoInput]
  /\ IF Max(1, ParseIntOrOne(pendingInput.num)) # input.days
     THEN StdRegenerate([input EXCEPT !.days = Max(1, ParseIntOrOne(pendingInput.num))],
                        Cells,
                        ShSteps(input.weights, Max(1, ParseIntOrOne(pendingInput.num))))
     ELSE StdRejected

(***************************************************************************)
(* Sum of Subarray Minimums (SubarrayMinsStackVisualizer in                *)
(* Stack/Next-Greater-Element-II-CircularArray-LeetCode-503.tsx): the two  *)
(* monotonic-stack passes and the accumulation.  A distance not yet        *)
(* computed (null in the code) is 0 here; the stack holds 0-based indices. *)
(***************************************************************************)
MOD == 1000000007

MAX_ARR_SIZE_907 == 12

MAX_VAL_907 == 50

DefaultMinsArr == <<3, 1, 2, 4>>

\* The remainder operator % of the code: the sign of the dividend.
JsRem(a, m) == IF a >= 0 THEN a % m ELSE 0 - ((0 - a) % m)

SmStep(w, phase, i, line) ==
  [stack |-> w.stack, left |-> w.left, right |-> w.right, ans |-> w.ans,
   phase |-> phase, currentIndex |-> i, codeLine |-> line]

SmPush(w, step) == [w EXCEPT !.steps = Append(@, step)]

\* A comparison that is strict in both passes.
SmPopsStrict(a, top, i, phase) == a[top + 1] > a[i + 1]

\* arr[top] > arr[i] in the left pass, arr[top] >= arr[i] in the right pass.
SmPops(a, top, i, phase) ==
  IF phase = "left_pass" THEN a[top + 1] > a[i + 1] ELSE a[top + 1] >= a[i + 1]

\* while (stack.length > 0) of position i: the check Step, then the pop or
\* the stop with its Step.
RECURSIVE SmPopLoop(_, _, _, _, _)
SmPopLoop(w, a, i, phase, line) ==
  IF w.stack = <<>> THEN w
  ELSE IF SmPops(a, Last(w.stack), i, phase)
       THEN SmPopLoop(
              SmPush([SmPush(w, SmStep(w, phase, i, line)
                                  @@ [compareIndex |-> Last(w.stack)])
                        EXCEPT !.stack = SubSeq(@, 1, Len(@) - 1)],
                     SmStep([w EXCEPT !.stack = SubSeq(@, 1, Len(@) - 1)],
                            phase, i, line) @@ [poppedIndex |-> Last(w.stack)]),
              a, i, phase, line)
       ELSE SmPush(SmPush(w, SmStep(w, phase, i, line)
                               @@ [compareIndex |-> Last(w.stack)]),
                   SmStep(w, phase, i, line) @@ [compareIndex |-> Last(w.stack)])

\* The distance of position i to the boundary or to the stack top.
SmDist(w, i, len, phase) ==
  IF phase = "left_pass"
  THEN (IF w.stack = <<>> THEN i + 1 ELSE i - Last(w.stack))
  ELSE (IF w.stack = <<>> THEN len - i ELSE Last(w.stack) - i)

\* leftArr[i] = dist or rightArr[i] = dist with its Step.
SmSetDist(w, i, dist, phase) ==
  IF phase = "left_pass"
  THEN SmPush([w EXCEPT !.left[i + 1] = dist],
              SmStep([w EXCEPT !.left[i + 1] = dist], phase, i, "calc-left"))
  ELSE SmPush([w EXCEPT !.right[i + 1] = dist],
              SmStep([w EXCEPT !.right[i + 1] = dist], phase, i, "calc-right"))

\* stack.push(i) with its Step.
SmPushIndex(w, i, phase, line) ==
  SmPush([w EXCEPT !.stack = Append(@, i)],
         SmStep([w EXCEPT !.stack = Append(@, i)], phase, i, line))

\* The distance and the push once the pop loop of position i has left w.
SmAfterPops(w, i, len, phase) ==
  SmPushIndex(SmSetDist(w, i, SmDist(w, i, len, phase), phase), i, phase,
              IF phase = "left_pass" THEN "push-left" ELSE "push-right")

\* The body of a pass for position i.
SmBody(w, a, i, phase) ==
  SmAfterPops(SmPopLoop(SmPush(w, SmStep(w, phase, i,
                                         IF phase = "left_pass"
                                         THEN "loop-left" ELSE "loop-right")),
                        a, i, phase,
                        IF phase = "left_pass"
                        THEN "check-left-pop" ELSE "check-right-pop"),
              i, Len(a), phase)

\* for (let i = 0; i < n; i++) of the left pass.
RECURSIVE SmLeftPass(_, _)
SmLeftPass(w, a) ==
  IF w.i >= Len(a) THEN w
  ELSE SmLeftPass([SmBody(w, a, w.i, "left_pass") EXCEPT !.i = @ + 1], a)

\* for (let i = n - 1; i >= 0; i--) of the right pass.
RECURSIVE SmRightPass(_, _)
SmRightPass(w, a) ==
  IF w.i < 0 THEN w
  ELSE SmRightPass([SmBody(w, a, w.i, "right_pass") EXCEPT !.i = @ - 1], a)

\* A contribution that forgets the right distance.
SmContributionLeftOnly(v, l, r) == v * l

\* arr[i] * l * r
SmContribution(v, l, r) == v * l * r

\* for (let i = 0; i < n; i++) of the calculation.
RECURSIVE SmCalcLoop(_, _)
SmCalcLoop(w, a) ==
  IF w.i >= Len(a) THEN w
  ELSE SmCalcLoop(
         [SmPush([w EXCEPT !.ans = JsRem(@ + SmContribution(a[w.i + 1],
                                                           w.left[w.i + 1],
                                                           w.right[w.i + 1]), MOD)],
                 SmStep([w EXCEPT !.ans = JsRem(@ + SmContribution(a[w.i + 1],
                                                                  w.left[w.i + 1],
                                                                  w.right[w.i + 1]),
                                                MOD)],
                        "calculate", w.i, "calc-ans"))
            EXCEPT !.i = @ + 1],
         a)

\* The state with an empty stack, position i and one more Step.
SmPhase(w, i, phase, line) ==
  [SmPush([w EXCEPT !.stack = <<>>],
          SmStep([w EXCEPT !.stack = <<>>], phase, -1, line))
     EXCEPT !.i = i]

SmStart(a) ==
  SmPhase([steps |-> <<>>, stack |-> <<>>, left |-> [k \in 1..Len(a) |-> 0],
           right |-> [k \in 1..Len(a) |-> 0], ans |-> 0, i |-> 0],
          0, "left_pass", "init")

\* generateSteps of the Sum of Subarray Minimums note.
SmSteps(a) ==
  SmPhase(SmCalcLoop(SmPhase(SmRightPass(SmPhase(SmLeftPass(SmStart(a), a),
                                                 Len(a) - 1, "right_pass",
                                                 "clear-stack"), a),
                             0, "calculate", "calc-loop"), a),
          -1, "complete", "return").steps

SmMounted ==
  /\ StdMounted("mins", DefaultMinsArr, [mod |-> MOD], SmSteps(DefaultMinsArr))
  /\ pendingInput \in [text : ArrTexts, num : {NoInput}]

\* handleArrChange of the Sum of Subarray Minimums note on the pending text.
SmHandleArrChange ==
  /\ note = "mins"
  /\ pendingInput.text # NoInput
  /\ pendingInput' = [pendingInput EXCEPT !.text = NoInput]
  /\ IF /\ DigitsCommasBlanks(pendingInput.text)
        /\ PartsWithin(NumberParts(pendingInput.text), MAX_ARR_SIZE_907, MAX_VAL_907)
     THEN StdRegenerate(input,
                [Cells EXCEPT !.arr = PartValues(NumberParts(pendingInput.text))],
                SmSteps(PartValues(NumberParts(pendingInput.text))))
     ELSE StdRejected

(***************************************************************************)
(* The traces of the Sliding Window, Binary Search and Subarray Minimums   *)
(* notes under the edits of their inputs.                                  *)
(***************************************************************************)
InitTraces == LsMounted \/ SaMounted \/ ShMounted \/ SmMounted

NextTraces ==
  \/ LsEdit
  \/ SaHandleArrChange
  \/ SaSetK
  \/ handleWeightChange
  \/ ShSetDays
  \/ SmHandleArrChange
  \/ (Render /\ note \in {"substring", "split", "ship", "mins"})

SpecTraces == InitTraces /\ [][NextTraces]_vars

(***************************************************************************)
(* The Unique Paths note under a bounded list of user events, with the     *)
(* intervals and the renders that React schedules taken fairly.            *)
(***************************************************************************)
MaxEvents == 3

\* The user's events: the play / pause button, the reset button, and values
\* typed into the Rows and the Cols field.
UpEvents == {"play", "reset", "rows1", "cols1", "cols7"}

UpEventLists == UNION {[1..k -> UpEvents] : k \in 0..MaxEvents}

\* The note after the event ev.
UpAfterEvent(u, ev) ==
  IF ev = "play" THEN UpCommit([u EXCEPT !.isPlaying = ~u.view.isPlaying])
  ELSE IF ev = "reset" THEN UpCommit(resetSimulation(u))
  ELSE IF ev = "rows1" THEN UpCommit([u EXCEPT !.m = ClampSize(1)])
  ELSE IF ev = "cols1" THEN UpCommit([u EXCEPT !.n = ClampSize(1)])
  ELSE UpCommit([u EXCEPT !.n = ClampSize(7)])

UpMountedWithEvents ==
  /\ note = "paths"
  /\ up = [m |-> 3, n |-> 7, isPlaying |-> FALSE, currentCell |-> NoCell,
           filledCells |-> {}, fresh |-> TRUE,
           view |-> [m |-> 3, n |-> 7, isPlaying |-> FALSE,
                     currentCell |-> NoCell, filledCells |-> {}],
           timers |-> {}, timerRef |-> NoTimer]
  /\ arr = <<>>
  /\ steps = <<>>
  /\ currentStepIndex = 0
  /\ isPlaying = FALSE
  /\ playbackSpeed = 0
  /\ view = Cells
  /\ timers = {}
  /\ timerRef = NoTimer
  /\ lastEvent = Unmounted
  /\ advances = 0
  /\ pendingInput \in UpEventLists
  /\ capacity = 0
  /\ error = NoError
  /\ input = Unmounted
  /\ dj = Unmounted

\* The next event of the user.
UpUserEvent ==
  /\ note = "paths"
  /\ pendingInput # <<>>
  /\ up' = UpAfterEvent(up, Head(pendingInput))
  /\ pendingInput' = Tail(pendingInput)
  /\ UNCHANGED <<note, playerVars, advances, capacity, error, input, dj>>

NextPaths ==
  \/ UpUserEvent
  \/ UpTick
  \/ UpRender

SpecPaths ==
  /\ UpMountedWithEvents
  /\ [][NextPaths]_vars
  /\ WF_vars(UpTick)
  /\ WF_vars(UpRender)

(***************************************************************************)
(* Sum of Subarray Minimums, backtracking approach (SubarrayMinsVisualizer *)
(* in src/unnamed/part_002): the trace of all subarrays.                   *)
(***************************************************************************)
\* parts.length > 0 && parts.length <= 15
BfAccepts(parts) == Len(parts) > 0 /\ Len(parts) <= 15

\* for (let idx = i; idx < n; idx++): w.idx is the end pointer, w.first
\* holds while currentMin is still Infinity.
RECURSIVE BfInner(_, _, _)
BfInner(w, a, i) ==
  IF w.idx >= Len(a) THEN w
  ELSE BfInner(
         [w EXCEPT
            !.idx = @ + 1,
            !.first = FALSE,
            !.currentMin = IF w.first THEN a[w.idx + 1] ELSE Min(@, a[w.idx + 1]),
            !.totalSum = JsRem(@ + (IF w.first THEN a[w.idx + 1]
                                    ELSE Min(w.currentMin, a[w.idx + 1])), MOD),
            !.steps = Append(@,
               [startIdx |-> i, endIdx |-> w.idx,
                currentMin |-> IF w.first THEN a[w.idx + 1]
                               ELSE Min(w.currentMin, a[w.idx + 1]),
                addedVal |-> IF w.first THEN a[w.idx + 1]
                             ELSE Min(w.currentMin, a[w.idx + 1]),
                totalSum |-> JsRem(w.totalSum + (IF w.first THEN a[w.idx + 1]
                                                 ELSE Min(w.currentMin, a[w.idx + 1])),
                                   MOD)])],
         a, i)

\* for (let i = 0; i < n; i++)
RECURSIVE BfOuter(_, _)
BfOuter(w, a) ==
  IF w.i >= Len(a) THEN w
  ELSE BfOuter([BfInner([w EXCEPT !.idx = w.i, !.first = TRUE, !.currentMin = 0],
                        a, w.i)
                  EXCEPT !.i = @ + 1],
               a)

\* generateSteps of the backtracking note.
BfSteps(a) ==
  Append(BfOuter([steps |-> <<>>, totalSum |-> 0, i |-> 0, idx |-> 0,
                  first |-> TRUE, currentMin |-> 0], a).steps,
         [startIdx |-> -1, endIdx |-> -1, currentMin |-> 0, addedVal |-> 0,
          totalSum |-> BfOuter([steps |-> <<>>, totalSum |-> 0, i |-> 0,
                                idx |-> 0, first |-> TRUE, currentMin |-> 0],
                               a).totalSum])

\* A comparator that sorts equal widths by ascending height.
RoBeforeAscending(a, b) == a.w < b.w \/ (a.w = b.w /\ a.h < b.h)

(***************************************************************************)
(* Russian Doll Envelopes, sort plus LIS by binary search                  *)
(* (DP/Russian-Doll-Envelopes-Optimised-LC354.tsx), and the envelope lists *)
(* both notes of the problem are fed with.                                 *)
(***************************************************************************)
\* The comparator of envs.sort: width ascending, then height descending.
RoBefore(a, b) == a.w < b.w \/ (a.w = b.w /\ a.h > b.h)

RECURSIVE RoInsert(_, _)
RoInsert(x, s) ==
  IF s = <<>> THEN <<x>>
  ELSE IF RoBefore(x, Head(s)) THEN <<x>> \o s
  ELSE <<Head(s)>> \o RoInsert(x, Tail(s))

\* envs.sort(...): stable.
RECURSIVE RoSort(_)
RoSort(s) ==
  IF s = <<>> THEN s
  ELSE RoInsert(Last(s), RoSort(SubSeq(s, 1, Len(s) - 1)))

RoStep(w, phase, i, line) ==
  [envelopes |-> w.envs, lis |-> w.lis, lisSize |-> w.size, phase |-> phase,
   currentIndex |-> i, codeLine |-> line]

RoPush(w, step) == [w EXCEPT !.steps = Append(@, step)]

\* while (low < high) for the height h of envelope i, with its Steps.
RECURSIVE RoBinarySearch(_, _, _)
RoBinarySearch(w, i, h) ==
  IF w.low >= w.high THEN w
  ELSE RoBinarySearch(
         [RoPush(w, RoStep(w, "binary_search", i, "binary-search")
                      @@ [bsLow |-> w.low, bsHigh |-> w.high,
                          bsMid |-> (w.low + w.high) \div 2, bsTarget |-> h])
            EXCEPT !.low = IF w.lis[(w.low + w.high) \div 2 + 1] < h
                           THEN (w.low + w.high) \div 2 + 1 ELSE @,
                   !.high = IF w.lis[(w.low + w.high) \div 2 + 1] < h
                            THEN @ ELSE (w.low + w.high) \div 2],
         i, h)

\* lis[idx] = h, size++ on an append, and the update_lis Step, for the
\* search result w.low.
RoUpdate(w, i, h) ==
  RoPush([w EXCEPT !.lis[w.low + 1] = h,
                   !.size = IF w.low = w.size THEN @ + 1 ELSE @],
         RoStep([w EXCEPT !.lis[w.low + 1] = h,
                          !.size = IF w.low = w.size THEN @ + 1 ELSE @],
                "update_lis", i, IF w.low = w.size THEN "extend" ELSE "replace")
           @@ [insertionIndex |-> w.low])

\* for (let i = 0; i < n; i++)
RECURSIVE RoLoop(_)
RoLoop(w) ==
  IF w.i >= Len(w.envs) THEN w
  ELSE RoLoop([RoUpdate(RoBinarySearch(
                          [RoPush(w, RoStep(w, "process_env", w.i, "loop"))
                             EXCEPT !.low = 0, !.high = w.size],
                          w.i, w.envs[w.i + 1].h),
                        w.i, w.envs[w.i + 1].h)
                 EXCEPT !.i = @ + 1])

\* The loop state after the two sort Steps.
RoStart(initialEnvelopes) ==
  RoPush([RoPush([steps |-> <<>>, envs |-> initialEnvelopes,
                  lis |-> [k \in 1..Len(initialEnvelopes) |-> 0],
                  size |-> 0, i |-> 0, low |-> 0, high |-> 0],
                 [envelopes |-> initialEnvelopes,
                  lis |-> [k \in 1..Len(initialEnvelopes) |-> 0],
                  lisSize |-> 0, phase |-> "sort", currentIndex |-> -1,
                  codeLine |-> "init"])
            EXCEPT !.envs = RoSort(initialEnvelopes)],
         [envelopes |-> RoSort(initialEnvelopes),
          lis |-> [k \in 1..Len(initialEnvelopes) |-> 0],
          lisSize |-> 0, phase |-> "sort", currentIndex |-> -1,
          codeLine |-> "sort"])

\* A final Step built from the loop state w.
RoFinal(w) == RoPush(w, RoStep(w, "complete", -1, "return")).steps

\* generateSteps of the optimised note.
RoGenerateSteps(initialEnvelopes) == RoFinal(RoLoop(RoStart(initialEnvelopes)))

MaxEnvelopes == 3

EnvelopeSides == {"1", "2", "3"}

\* The text [w,h],[w,h],... of a list of pairs of digits.
RECURSIVE PairsText(_)
PairsText(ps) ==
  IF ps = <<>> THEN <<>>
  ELSE <<"[", Head(ps)[1], ",", Head(ps)[2], "]">>
       \o (IF Len(ps) = 1 THEN <<>> ELSE <<",">>)
       \o PairsText(Tail(ps))

\* The texts of the non-empty lists of up to MaxEnvelopes envelopes.
EnvelopeTexts ==
  {PairsText(ps) :
     ps \in UNION {[1..k -> EnvelopeSides \X EnvelopeSides] : k \in 1..MaxEnvelopes}}

InitEnvelopes ==
  /\ StdMounted("doll", <<>>, [inputStr |-> DefaultEnvelopes],
                RdGenerateSteps(RdEnvelopes(RdPairs(RdClean(DefaultEnvelopes), 1))))
  /\ pendingInput \in EnvelopeTexts

\* The pending text is typed into the envelopes field.
RdTypeEnvelopes == RdSetInputStr(pendingInput)

NextEnvelopes ==
  \/ RdTypeEnvelopes
  \/ (Render /\ note = "doll")

SpecEnvelopes == InitEnvelopes /\ [][NextEnvelopes]_vars

(***************************************************************************)
(* Coin Change (DP/Coin-Change-Tabulation.tsx): the 2D and the 1D          *)
(* tabulation trace, the handlers of the amount, the coins and the mode.   *)
(* input holds amount, coins and mode; pendingInput the user's events      *)
(* still to come.  Coin values are not negative here.                      *)
(***************************************************************************)
INF == 1000000000

MAX_AMOUNT_LIMIT == 15

MAX_COINS_LIMIT == 6

\* a % coin === 0: the remainder by 0 is NaN.
CcDivisible(a, coin) == coin # 0 /\ a % coin = 0

CcPush(w, step) == [w EXCEPT !.steps = Append(@, step)]

CcRef(r, c, type) == [r |-> r, c |-> c, type |-> type]

CcDetails(coin, a, notTake, take, canTake, result) ==
  [coinVal |-> coin, currentAmt |-> a, notTakeVal |-> notTake,
   takeVal |-> take, canTake |-> canTake, result |-> result]

CcStep(i, a, dp, phase, refs, line) ==
  [i |-> i, a |-> a, dp |-> dp, phase |-> phase, highlightRefs |-> refs,
   codeLine |-> line]

\* The base-case value of dp[0][a] for the first coin.
CcBaseValue(a, coin) == IF CcDivisible(a, coin) THEN a \div coin ELSE INF

\* for (let a = 0; a <= W; a++) of the first coin.
RECURSIVE CcBaseRow(_, _, _)
CcBaseRow(w, coin, W) ==
  IF w.a > W THEN w
  ELSE CcBaseRow(
         [CcPush([w EXCEPT !.dp[1][w.a + 1] = CcBaseValue(w.a, coin)],
                 CcStep(0, w.a, [w.dp EXCEPT ![1][w.a + 1] = CcBaseValue(w.a, coin)],
                        "init", <<CcRef(0, w.a, "current")>>,
                        IF CcDivisible(w.a, coin) THEN "init-divisible" ELSE "init-inf")
                   @@ [calcDetails |->
                         CcDetails(coin, w.a, 0, 0, CcDivisible(w.a, coin),
                                   CcBaseValue(w.a, coin))])
            EXCEPT !.a = @ + 1],
         coin, W)

\* take of the 2D cell (w.i, w.a): 1 + dp[i][a - coin] when coin <= a.
CcTake(w, coin) ==
  IF coin <= w.a THEN 1 + w.dp[w.i + 1][w.a - coin + 1] ELSE INF

\* The 2D cell (w.i, w.a) with its Step.
CcCell(w, coin, result) ==
  CcPush([w EXCEPT !.dp[w.i + 1][w.a + 1] = result],
         CcStep(w.i, w.a, [w.dp EXCEPT ![w.i + 1][w.a + 1] = result], "update",
                <<CcRef(w.i, w.a, "current"), CcRef(w.i - 1, w.a, "not-take")>>
                  \o (IF coin <= w.a THEN <<CcRef(w.i, w.a - coin, "take")>>
                      ELSE <<>>),
                "update-min")
           @@ [calcDetails |->
                 CcDetails(coin, w.a, w.dp[w.i][w.a + 1], CcTake(w, coin),
                           coin <= w.a, result)])

\* for (let i = 1; i < n; i++) for (let a = 0; a <= W; a++)
RECURSIVE CcRows(_, _, _)
CcRows(w, coins, W) ==
  IF w.i >= Len(coins) THEN w
  ELSE IF w.a > W THEN CcRows([w EXCEPT !.i = @ + 1, !.a = 0], coins, W)
  ELSE CcRows([CcCell(w, coins[w.i + 1],
                      Min(CcTake(w, coins[w.i + 1]), w.dp[w.i][w.a + 1]))
                 EXCEPT !.a = @ + 1],
              coins, W)

\* The final Step of either mode.
CcFinal(w, len, W, row) ==
  CcPush(w, CcStep(len - 1, W, w.dp, "update", <<CcRef(row, W, "current")>>,
                   "return")).steps

\* The 2D branch of the generation effect.
Cc2D(coins, W) ==
  CcFinal(
    CcRows([CcBaseRow(
              [dp |-> [r \in 1..Len(coins) |-> [c \in 1..(W + 1) |-> 0]],
               i |-> 0, a |-> 0,
               steps |-> <<CcStep(-1, -1,
                                  [r \in 1..Len(coins) |-> [c \in 1..(W + 1) |-> 0]],
                                  "init", <<>>, "init-table")>>],
              coins[1], W)
              EXCEPT !.i = 1, !.a = 0],
           coins, W),
    Len(coins), W, Len(coins) - 1)

\* The 1D cell w.a of the coin w.i with its Step.
CcCell1D(w, coin, newVal) ==
  CcPush([w EXCEPT !.dp[1][w.a + 1] = newVal],
         CcStep(w.i, w.a, [w.dp EXCEPT ![1][w.a + 1] = newVal], "update",
                <<CcRef(0, w.a, "current"), CcRef(0, w.a - coin, "take")>>,
                "update-1d")
           @@ [calcDetails |->
                 CcDetails(coin, w.a, w.dp[1][w.a + 1],
                           1 + w.dp[1][w.a - coin + 1], TRUE, newVal)])

\* for (let i = 0; i < n; i++) for (let a = coin; a <= W; a++); w.a = -1
\* marks the start of a coin.
RECURSIVE CcCoins1D(_, _, _)
CcCoins1D(w, coins, W) ==
  IF w.i >= Len(coins) THEN w
  ELSE IF w.a = -1 THEN CcCoins1D([w EXCEPT !.a = coins[w.i + 1]], coins, W)
  ELSE IF w.a > W THEN CcCoins1D([w EXCEPT !.i = @ + 1, !.a = -1], coins, W)
  ELSE CcCoins1D([CcCell1D(w, coins[w.i + 1],
                           Min(w.dp[1][w.a + 1],
                               1 + w.dp[1][w.a - coins[w.i + 1] + 1]))
                    EXCEPT !.a = @ + 1],
                 coins, W)

\* The 1D branch of the generation effect.
Cc1D(coins, W) ==
  CcFinal(
    CcCoins1D([dp |-> <<[c \in 1..(W + 1) |-> IF c = 1 THEN 0 ELSE INF]>>,
               i |-> 0, a |-> -1,
               steps |-> <<CcStep(-1, -1,
                                  <<[c \in 1..(W + 1) |-> IF c = 1 THEN 0 ELSE INF]>>,
                                  "init", <<CcRef(0, 0, "current")>>, "init-1d")>>],
              coins, W),
    Len(coins), W, 0)

\* The trace of the effect with the dependencies [amount, coins, mode].
CcSteps(inp) ==
  IF inp.mode = "2D" THEN Cc2D(inp.coins, inp.amount)
  ELSE Cc1D(inp.coins, inp.amount)

\* The user's events: the add button, the remove button of the first coin,
\* a text typed into a coin field or the amount field, a mode button.
CcEvents ==
  {[type |-> "add"], [type |-> "remove", idx |-> 0]}
    \cup [type : {"coin"}, idx : {0, 1}, val : {<<>>, <<"2">>}]
    \cup [type : {"amount"}, val : {<<"0">>, <<"3">>, <<"9", "9">>}]
    \cup [type : {"mode"}, mode : {"1D", "2D"}]

CcEventLists == UNION {[1..k -> CcEvents] : k \in 0..MaxEvents}

\* The note after its first render and its mount effects.
CcMounted ==
  /\ note = "coins"
  /\ input = [amount |-> 11, coins |-> <<1, 2, 5>>, mode |-> "2D"]
  /\ arr = <<>>
  /\ steps = Cc2D(<<1, 2, 5>>, 11)
  /\ currentStepIndex = 0
  /\ isPlaying = FALSE
  /\ playbackSpeed = 800
  /\ view = [arr |-> <<>>, steps |-> <<>>, currentStepIndex |-> 0,
             isPlaying |-> FALSE, playbackSpeed |-> 800]
  /\ timers = {}
  /\ timerRef = NoTimer
  /\ lastEvent = "mount"
  /\ advances = 0
  /\ dj = Unmounted
  /\ capacity = 0
  /\ error = NoError
  /\ up = Unmounted
  /\ pendingInput \in CcEventLists

\* An event that sets the inputs to inp and calls handleReset: the commit
\* and the generation effect (a repeated value gives the same trace).
CcSetInput(inp) ==
  /\ StdRegenerate(inp, [Cells EXCEPT !.currentStepIndex = 0, !.isPlaying = FALSE],
                   CcSteps(inp))
  /\ pendingInput' = Tail(pendingInput)

\* An event whose handler returns at once.
CcIgnored ==
  /\ StdRejected
  /\ pendingInput' = Tail(pendingInput)

addCoin ==
  /\ note = "coins" /\ pendingInput # <<>>
  /\ Head(pendingInput).type = "add"
  /\ IF Len(input.coins) >= MAX_COINS_LIMIT THEN CcIgnored
     ELSE CcSetInput([input EXCEPT !.coins = Append(@, 1)])

removeCoin ==
  /\ note = "coins" /\ pendingInput # <<>>
  /\ Head(pendingInput).type = "remove"
  /\ IF Len(input.coins) <= 1 THEN CcIgnored
     ELSE CcSetInput([input EXCEPT !.coins =
                        SubSeq(@, 1, Head(pendingInput).idx)
                          \o SubSeq(@, Head(pendingInput).idx + 2, Len(@))])

\* updateCoin of a coin field that is shown.
updateCoin ==
  /\ note = "coins" /\ pendingInput # <<>>
  /\ Head(pendingInput).type = "coin"
  /\ IF Head(pendingInput).idx >= Len(input.coins) THEN CcIgnored
     ELSE CcSetInput([input EXCEPT !.coins[Head(pendingInput).idx + 1] =
                        ParseIntOrZero(Head(pendingInput).val)])

updateAmount ==
  /\ note = "coins" /\ pendingInput # <<>>
  /\ Head(pendingInput).type = "amount"
  /\ CcSetInput([input EXCEPT !.amount =
                   Min(MAX_AMOUNT_LIMIT, ParseIntOrZero(Head(pendingInput).val))])

\* onClick={() => { setMode(...); handleReset(); }}
CcSetMode ==
  /\ note = "coins" /\ pendingInput # <<>>
  /\ Head(pendingInput).type = "mode"
  /\ CcSetInput([input EXCEPT !.mode = Head(pendingInput).mode])

NextCoins ==
  \/ addCoin
  \/ removeCoin
  \/ updateCoin
  \/ updateAmount
  \/ CcSetMode
  \/ (Render /\ note = "coins")

SpecCoins == CcMounted /\ [][NextCoins]_vars

(***************************************************************************)
(* Lowest Common Ancestor of a Binary Tree                                 *)
(* (Trees/Leetcode-236-Lowest-Common-Ancestor-of-a-Binary-Tree.tsx).  A    *)
(* tree is the sequence of its nodes in the order buildTree creates them;  *)
(* a node is named by its position, 0 is the null node.  A value that may  *)
(* be null is <<>> for null and <<v>> for the number v.  input holds       *)
(* treeInput, pVal, qVal and root; pendingInput the texts still to be      *)
(* typed into the three fields.                                            *)
(***************************************************************************)
Null == <<>>

Pending == <<"pending">>

NoTree == <<>>

NullText == <<"n", "u", "l", "l">>

DefaultTreeInput ==
  <<"[", "3", ",", "5", ",", "1", ",", "6", ",", "2", ",", "0", ",", "8", ",">>
    \o NullText \o <<",">> \o NullText \o <<",", "7", ",", "4", "]">>

\* One element of the split text: 'null', '' and a text parseInt cannot
\* read give null.
LcaParsePart(s) ==
  IF Trim(s) = NullText \/ Trim(s) = <<>> THEN Null
  ELSE IF IntDigits(TrimStart(Trim(s))) = <<>> THEN Null
  ELSE IF Head(Trim(s)) = "-" THEN <<0 - DecValue(IntDigits(Trim(s)))>>
  ELSE <<DecValue(IntDigits(Trim(s)))>>

parseTreeArray(str) ==
  IF Trim(SelectSeq(str, LAMBDA ch : ch \notin {"[", "]"})) = <<>> THEN <<>>
  ELSE [k \in 1..Len(SplitComma(SelectSeq(str, LAMBDA ch : ch \notin {"[", "]"}))) |->
          LcaParsePart(SplitComma(SelectSeq(str, LAMBDA ch : ch \notin {"[", "]"}))[k])]

TreeNode(val) == [val |-> val, left |-> 0, right |-> 0]

\* if (i < arr.length) { const val = arr[i++]; if (val !== null) ... } for
\* the child on the given side of the node curr.
BtChild(b, a, curr, side) ==
  IF b.i >= Len(a) THEN b
  ELSE IF a[b.i + 1] = Null THEN [b EXCEPT !.i = @ + 1]
  ELSE [nodes |-> Append([b.nodes EXCEPT ![curr] =
                            IF side = "left"
                            THEN [@ EXCEPT !.left = Len(b.nodes) + 1]
                            ELSE [@ EXCEPT !.right = Len(b.nodes) + 1]],
                         TreeNode(a[b.i + 1][1])),
        queue |-> Append(b.queue, Len(b.nodes) + 1),
        i |-> b.i + 1]

\* while (i < arr.length) of buildTree.
RECURSIVE BtLoop(_, _)
BtLoop(b, a) ==
  IF b.i >= Len(a) \/ b.queue = <<>> THEN b
  ELSE BtLoop(BtChild(BtChild([b EXCEPT !.queue = Tail(@)], a,
                              Head(b.queue), "left"),
                      a, Head(b.queue), "right"),
              a)

buildTree(a) ==
  IF a = <<>> \/ a[1] = Null THEN NoTree
  ELSE BtLoop([nodes |-> <<TreeNode(a[1][1])>>, queue |-> <<1>>, i |-> 1], a).nodes

LcaStep(node, phase, left, right, ret, path, foundP, foundQ, line) ==
  [currentNode |-> node, phase |-> phase, leftResult |-> left,
   rightResult |-> right, returnValue |-> ret, activePath |-> path,
   foundP |-> foundP, foundQ |-> foundQ, codeLine |-> line]

LcaPush(w, step) == [w EXCEPT !.steps = Append(@, step)]

\* The 'visit' and the 'check_base' Step of a call.
LcaVisit(w, T, node) ==
  LcaPush(LcaPush(w,
    LcaStep(node, "visit", Pending, Pending, Null,
            Append(w.path, IF node = 0 THEN -1 ELSE T[node].val),
            FALSE, FALSE, 1)),
    LcaStep(node, "check_base", Pending, Pending, Null,
            Append(w.path, IF node = 0 THEN -1 ELSE T[node].val),
            FALSE, FALSE, 2))

\* The return of a call on a node whose value is p or q.
LcaFoundTarget(w, T, node, p, q) ==
  [LcaPush(w, LcaStep(node, "process_return", Pending, Pending,
                      <<T[node].val>>, Append(w.path, T[node].val),
                      T[node].val = p, T[node].val = q, 3))
     EXCEPT !.ret = <<T[node].val>>]

\* A return that hands up the result of the left call only.
LcaProcessReturnLeftOnly(w, T, node, left, right) ==
  [LcaPush([w EXCEPT !.path = SubSeq(@, 1, Len(@) - 1)],
           LcaStep(node, "process_return", left, right, left,
                   SubSeq(w.path, 1, Len(w.path) - 1), FALSE, FALSE, 10))
     EXCEPT !.ret = left]

\* path.pop() and the return of a call after its two recursive calls gave
\* left and right.
LcaProcessReturn(w, T, node, left, right) ==
  IF left # Null /\ right # Null
  THEN [LcaPush([w EXCEPT !.path = SubSeq(@, 1, Len(@) - 1)],
                LcaStep(node, "found_lca", left, right, <<T[node].val>>,
                        SubSeq(w.path, 1, Len(w.path) - 1), TRUE, TRUE, 8))
          EXCEPT !.ret = <<T[node].val>>]
  ELSE [LcaPush([w EXCEPT !.path = SubSeq(@, 1, Len(@) - 1)],
                LcaStep(node, "process_return", left, right,
                        IF left # Null THEN left ELSE right,
                        SubSeq(w.path, 1, Len(w.path) - 1), FALSE, FALSE, 10))
          EXCEPT !.ret = IF left # Null THEN left ELSE right]

\* path.push(node.val) and the 'recurse_left' Step.
LcaGoLeft(w, T, node) ==
  LcaPush([w EXCEPT !.path = Append(@, T[node].val)],
          LcaStep(node, "recurse_left", Pending, Pending, Null,
                  Append(w.path, T[node].val), FALSE, FALSE, 5))

\* The 'recurse_right' Step after the left call returned w.ret.
LcaGoRight(w, node) ==
  LcaPush(w, LcaStep(node, "recurse_right", w.ret, Pending, Null, w.path,
                     FALSE, FALSE, 6))

RECURSIVE recurse(_, _, _, _, _)
recurse(w, T, node, p, q) ==
  IF node = 0 THEN [LcaVisit(w, T, node) EXCEPT !.ret = Null]
  ELSE IF T[node].val = p \/ T[node].val = q
  THEN LcaFoundTarget(LcaVisit(w, T, node), T, node, p, q)
  ELSE LET l == recurse(LcaGoLeft(LcaVisit(w, T, node), T, node), T,
                        T[node].left, p, q)
           r == recurse(LcaGoRight(l, node), T, T[node].right, p, q)
       IN LcaProcessReturn(r, T, node, l.ret, r.ret)

\* generateSteps of a tree with a root.
LcaSteps(T, p, q) ==
  recurse([steps |-> <<>>, path |-> <<>>, ret |-> Null], T, 1, p, q).steps

MaxTreeLen == 4

TreePartTexts == {<<"1">>, <<"2">>, <<"7">>, NullText}

RECURSIVE JoinParts(_)
JoinParts(ps) ==
  IF ps = <<>> THEN <<>>
  ELSE Head(ps) \o (IF Len(ps) = 1 THEN <<>> ELSE <<",">>) \o JoinParts(Tail(ps))

\* Texts typed into the tree field: the level-order lists of up to
\* MaxTreeLen elements, a list with an empty and one with an unreadable
\* element, and two lists of five.
TreeTexts ==
  {<<"[">> \o JoinParts(ps) \o <<"]">> :
     ps \in UNION {[1..k -> TreePartTexts] : k \in 0..MaxTreeLen}}
    \cup {<<"[", "1", ",", ",", "2", "]">>,
          <<"[", "1", ",", "x", ",", " ", "2", "]">>,
          <<"[", "1", ",", "4">> \o <<",">> \o NullText \o <<",", "7", ",", "2", "]">>,
          <<"[", "1", ",", "7", ",", "2", ",", "7", ",", "2", "]">>}

LcaMounted ==
  /\ StdMounted("lca", <<>>,
                [treeInput |-> DefaultTreeInput, pVal |-> 5, qVal |-> 1,
                 root |-> buildTree(parseTreeArray(DefaultTreeInput))],
                LcaSteps(buildTree(parseTreeArray(DefaultTreeInput)), 5, 1))
  /\ pendingInput \in [tree : TreeTexts, p : {<<"7">>, <<"2">>},
                       q : {<<"4">>, <<"2">>}]

\* A change of the inputs to inp: the tree effect after a new text, the
\* generation effect when there is a root.
LcaChanged(inp) ==
  IF inp = input THEN StdRejected
  ELSE IF inp.root # NoTree
  THEN StdRegenerate(inp, Cells, LcaSteps(inp.root, inp.pVal, inp.qVal))
  ELSE IF inp.treeInput # input.treeInput
  THEN StdRegenerate(inp, Cells, steps)
  ELSE /\ input' = inp
       /\ lastEvent' = "edit"
       /\ UNCHANGED <<arr, steps, currentStepIndex, isPlaying, playbackSpeed,
                      view, timers, timerRef, note, advances, dj, capacity,
                      error, up>>

\* onChange of the tree field.
LcaSetTreeInput ==
  /\ note = "lca"
  /\ pendingInput.tree # NoInput
  /\ pendingInput' = [pendingInput EXCEPT !.tree = NoInput]
  /\ LcaChanged([input EXCEPT !.treeInput = pendingInput.tree,
                              !.root = buildTree(parseTreeArray(pendingInput.tree))])

\* onChange of the P Value field.
LcaSetPVal ==
  /\ note = "lca"
  /\ pendingInput.p # NoInput
  /\ pendingInput' = [pendingInput EXCEPT !.p = NoInput]
  /\ LcaChanged([input EXCEPT !.pVal = ParseIntOrZero(pendingInput.p)])

\* onChange of the Q Value field.
LcaSetQVal ==
  /\ note = "lca"
  /\ pendingInput.q # NoInput
  /\ pendingInput' = [pendingInput EXCEPT !.q = NoInput]
  /\ LcaChanged([input EXCEPT !.qVal = ParseIntOrZero(pendingInput.q)])

NextTrees ==
  \/ LcaSetTreeInput
  \/ LcaSetPVal
  \/ LcaSetQVal
  \/ (Render /\ note = "lca")

SpecTrees == LcaMounted /\ [][NextTrees]_vars

(***************************************************************************)
(* The SQL join animator (SQL/Joins.tsx, SQLJoinAnimator).  The cells are  *)
(* joinType and completedRows (in input), isPlaying, currentStepIndex and  *)
(* animationSpeed (playbackSpeed); steps is the memo of the last render,   *)
(* view the last committed render, timers the pending timeout.             *)
(* pendingInput holds the user's events still to come.                     *)
(***************************************************************************)
employees ==
  <<[id |-> 1, name |-> "Alice", dept_id |-> <<101>>],
    [id |-> 2, name |-> "Bob", dept_id |-> <<102>>],
    [id |-> 3, name |-> "Charlie", dept_id |-> Null]>>

departments ==
  <<[id |-> 101, name |-> "Product"],
    [id |-> 102, name |-> "Sales"],
    [id |-> 103, name |-> "Engineering"]>>

\* emp and dept are <<>> for null and <<record>> otherwise.
createMergedRow(emp, dept, status) ==
  [id |-> (IF emp = Null THEN "null" ELSE ToString(emp[1].id)) \o "-"
            \o (IF dept = Null THEN "null" ELSE ToString(dept[1].id)),
   emp |-> emp, dept |-> dept, status |-> status]

JoinStep(type, leftId, rightId) ==
  [type |-> type, leftId |-> leftId, rightId |-> rightId]

JoinRowStep(type, leftId, rightId, row) ==
  [type |-> type, leftId |-> leftId, rightId |-> rightId, row |-> row]

\* departments.find(d => d.id === emp.dept_id), null as <<>>.
FindDept(emp) ==
  IF SelectSeq(departments, LAMBDA d : <<d.id>> = emp.dept_id) = <<>> THEN Null
  ELSE <<Head(SelectSeq(departments, LAMBDA d : <<d.id>> = emp.dept_id))>>

\* employees.filter(e => e.dept_id === dept.id)
EmployeesOf(dept) == SelectSeq(employees, LAMBDA e : e.dept_id = <<dept.id>>)

\* The steps of one employee of an INNER or a LEFT join.
JoinLeftRow(emp, joinType) ==
  <<JoinStep("select", <<emp.id>>, Null)>>
    \o (IF FindDept(emp) # Null
        THEN <<JoinRowStep("match", <<emp.id>>, <<FindDept(emp)[1].id>>,
                           createMergedRow(<<emp>>, FindDept(emp), "match")),
               JoinRowStep("merge", <<emp.id>>, <<FindDept(emp)[1].id>>,
                           createMergedRow(<<emp>>, FindDept(emp), "match"))>>
        ELSE <<JoinStep("scan-fail", <<emp.id>>, Null),
               IF joinType = "LEFT"
               THEN JoinRowStep("merge-null", <<emp.id>>, Null,
                                createMergedRow(<<emp>>, Null, "left-only"))
               ELSE JoinStep("discard", <<emp.id>>, Null)>>)

RECURSIVE JoinLeft(_, _)
JoinLeft(k, joinType) ==
  IF k > Len(employees) THEN <<>>
  ELSE JoinLeftRow(employees[k], joinType) \o JoinLeft(k + 1, joinType)

\* matches.forEach of a RIGHT join.
RECURSIVE JoinMatches(_, _)
JoinMatches(matches, dept) ==
  IF matches = <<>> THEN <<>>
  ELSE <<JoinRowStep("match", <<Head(matches).id>>, <<dept.id>>,
                     createMergedRow(<<Head(matches)>>, <<dept>>, "match")),
         JoinRowStep("merge", <<Head(matches).id>>, <<dept.id>>,
                     createMergedRow(<<Head(matches)>>, <<dept>>, "match"))>>
       \o JoinMatches(Tail(matches), dept)

\* The steps of one department of a RIGHT join.
JoinRightRow(dept) ==
  <<JoinStep("select", Null, <<dept.id>>)>>
    \o (IF Len(EmployeesOf(dept)) > 0 THEN JoinMatches(EmployeesOf(dept), dept)
        ELSE <<JoinStep("scan-fail", Null, <<dept.id>>),
               JoinRowStep("merge-null", Null, <<dept.id>>,
                           createMergedRow(Null, <<dept>>, "right-only"))>>)

RECURSIVE JoinRight(_)
JoinRight(k) ==
  IF k > Len(departments) THEN <<>>
  ELSE JoinRightRow(departments[k]) \o JoinRight(k + 1)

\* Phase 1 of a FULL join: the employees.
RECURSIVE JoinFullLeft(_)
JoinFullLeft(k) ==
  IF k > Len(employees) THEN <<>>
  ELSE <<JoinStep("select", <<employees[k].id>>, Null),
         IF FindDept(employees[k]) # Null
         THEN JoinRowStep("merge", <<employees[k].id>>,
                          <<FindDept(employees[k])[1].id>>,
                          createMergedRow(<<employees[k]>>, FindDept(employees[k]),
                                          "match"))
         ELSE JoinRowStep("merge-null", <<employees[k].id>>, Null,
                          createMergedRow(<<employees[k]>>, Null, "left-only"))>>
       \o JoinFullLeft(k + 1)

\* Phase 2 of a FULL join: the departments without an employee.
RECURSIVE JoinFullOrphans(_)
JoinFullOrphans(k) ==
  IF k > Len(departments) THEN <<>>
  ELSE (IF EmployeesOf(departments[k]) = <<>>
        THEN <<JoinStep("select", Null, <<departments[k].id>>),
               JoinRowStep("merge-null", Null, <<departments[k].id>>,
                           createMergedRow(Null, <<departments[k]>>, "right-only"))>>
        ELSE <<>>)
       \o JoinFullOrphans(k + 1)

\* The steps memo of a join type.
JoinSteps(joinType) ==
  IF joinType \in {"INNER", "LEFT"} THEN JoinLeft(1, joinType)
  ELSE IF joinType = "RIGHT" THEN JoinRight(1)
  ELSE IF joinType = "FULL" THEN JoinFullLeft(1) \o JoinFullOrphans(1)
  ELSE <<>>

JoinCells ==
  [joinType |-> input.joinType, isPlaying |-> isPlaying,
   currentStepIndex |-> currentStepIndex, animationSpeed |-> playbackSpeed,
   completedRows |-> input.completedRows]

\* The timeout the timer effect leaves after the commit of the cells c over
\* the render v: the cleanup clears the old one when a dependency changed.
JoinTimer(c, v) ==
  IF c.isPlaying = v.isPlaying /\ c.currentStepIndex = v.currentStepIndex
     /\ c.joinType = v.joinType /\ c.animationSpeed = v.animationSpeed
  THEN timers
  ELSE IF c.isPlaying /\ c.currentStepIndex < Len(JoinSteps(c.joinType)) - 1
  THEN {[delay |-> c.animationSpeed]}
  ELSE {}

\* isPlaying after the timer effect: setIsPlaying(false) at the last step.
JoinPlayingAfter(c, v) ==
  IF c.isPlaying = v.isPlaying /\ c.currentStepIndex = v.currentStepIndex
     /\ c.joinType = v.joinType /\ c.animationSpeed = v.animationSpeed
  THEN c.isPlaying
  ELSE IF c.isPlaying /\ c.currentStepIndex < Len(JoinSteps(c.joinType)) - 1
  THEN c.isPlaying
  ELSE IF c.currentStepIndex >= Len(JoinSteps(c.joinType)) - 1 THEN FALSE
  ELSE c.isPlaying

\* A rows effect without its dependency list: it runs after every commit.
JoinRowsEffectEveryCommit(c, v) ==
  IF c.currentStepIndex >= 0
     /\ c.currentStepIndex < Len(JoinSteps(c.joinType))
     /\ JoinSteps(c.joinType)[c.currentStepIndex + 1].type \in {"merge", "merge-null"}
  THEN Append(c.completedRows, JoinSteps(c.joinType)[c.currentStepIndex + 1].row)
  ELSE c.completedRows

\* completedRows after the effect with the dependencies
\* [currentStepIndex, steps].
JoinRowsEffect(c, v) ==
  IF (c.currentStepIndex # v.currentStepIndex \/ c.joinType # v.joinType)
     /\ c.currentStepIndex >= 0
     /\ c.currentStepIndex < Len(JoinSteps(c.joinType))
     /\ JoinSteps(c.joinType)[c.currentStepIndex + 1].type \in {"merge", "merge-null"}
  THEN Append(c.completedRows, JoinSteps(c.joinType)[c.currentStepIndex + 1].row)
  ELSE c.completedRows

\* The commit of the cells c and its passive effects.
JoinCommit(c) ==
  /\ view' = c
  /\ steps' = JoinSteps(c.joinType)
  /\ timers' = JoinTimer(c, view)
  /\ isPlaying' = JoinPlayingAfter(c, view)
  /\ currentStepIndex' = c.currentStepIndex
  /\ playbackSpeed' = c.animationSpeed
  /\ input' = [joinType |-> c.joinType, completedRows |-> JoinRowsEffect(c, view)]
  /\ UNCHANGED <<note, arr, timerRef, advances, dj, capacity, error, up>>

JoinEvents ==
  {[type |-> "play"], [type |-> "reset"]}
    \cup [type : {"join"}, join : {"INNER", "LEFT", "RIGHT", "FULL"}]
    \cup [type : {"speed"}, speed : {1500, 800}]

JoinEventLists == UNION {[1..k -> JoinEvents] : k \in 0..MaxEvents}

JoinMounted ==
  /\ note = "joins"
  /\ input = [joinType |-> "INNER", completedRows |-> <<>>]
  /\ isPlaying = FALSE
  /\ currentStepIndex = -1
  /\ playbackSpeed = 1000
  /\ steps = JoinSteps("INNER")
  /\ view = [joinType |-> "INNER", isPlaying |-> FALSE, currentStepIndex |-> -1,
             animationSpeed |-> 1000, completedRows |-> <<>>]
  /\ timers = {}
  /\ arr = <<>>
  /\ timerRef = NoTimer
  /\ lastEvent = "mount"
  /\ advances = 0
  /\ dj = Unmounted
  /\ capacity = 0
  /\ error = NoError
  /\ up = Unmounted
  /\ pendingInput \in JoinEventLists

\* The cells after resetAnimation.
JoinReset(c) ==
  [c EXCEPT !.isPlaying = FALSE, !.currentStepIndex = -1, !.completedRows = <<>>]

\* The Start / Resume / Replay button, shown while the render is paused.
JoinPlay ==
  /\ note = "joins" /\ pendingInput # <<>>
  /\ Head(pendingInput).type = "play"
  /\ ~view.isPlaying
  /\ JoinCommit([(IF view.currentStepIndex = Len(steps) - 1
                  THEN JoinReset(JoinCells) ELSE JoinCells)
                   EXCEPT !.isPlaying = TRUE])
  /\ pendingInput' = Tail(pendingInput)
  /\ lastEvent' = "play"

\* The Pause button, shown while the render is playing.
JoinPause ==
  /\ note = "joins" /\ pendingInput # <<>>
  /\ Head(pendingInput).type = "play"
  /\ view.isPlaying
  /\ JoinCommit([JoinCells EXCEPT !.isPlaying = FALSE])
  /\ pendingInput' = Tail(pendingInput)
  /\ lastEvent' = "pause"

resetAnimation ==
  /\ note = "joins" /\ pendingInput # <<>>
  /\ Head(pendingInput).type = "reset"
  /\ JoinCommit(JoinReset(JoinCells))
  /\ pendingInput' = Tail(pendingInput)
  /\ lastEvent' = "reset"

handleJoinChange ==
  /\ note = "joins" /\ pendingInput # <<>>
  /\ Head(pendingInput).type = "join"
  /\ JoinCommit(JoinReset([JoinCells EXCEPT !.joinType = Head(pendingInput).join]))
  /\ pendingInput' = Tail(pendingInput)
  /\ lastEvent' = "join"

setAnimationSpeed ==
  /\ note = "joins" /\ pendingInput # <<>>
  /\ Head(pendingInput).type = "speed"
  /\ JoinCommit([JoinCells EXCEPT !.animationSpeed = Head(pendingInput).speed])
  /\ pendingInput' = Tail(pendingInput)
  /\ lastEvent' = "speed"

\* The timeout fires: setCurrentStepIndex(prev => prev + 1).
JoinTimeout ==
  /\ note = "joins"
  /\ timers # {}
  /\ timers' = {}
  /\ currentStepIndex' = currentStepIndex + 1
  /\ lastEvent' = "tick"
  /\ UNCHANGED <<note, arr, steps, isPlaying, playbackSpeed, view, timerRef,
                 pendingInput, advances, dj, capacity, error, up, input>>

\* The render of the updates a timeout or an effect queued.
JoinRender ==
  /\ note = "joins"
  /\ JoinCells # view
  /\ JoinCommit(JoinCells)
  /\ UNCHANGED <<pendingInput, lastEvent>>

NextJoins ==
  \/ JoinPlay
  \/ JoinPause
  \/ resetAnimation
  \/ handleJoinChange
  \/ setAnimationSpeed
  \/ JoinTimeout
  \/ JoinRender

SpecJoins == JoinMounted /\ [][NextJoins]_vars

(***************************************************************************)
(* Alien Dictionary (unnamed/part_001, AlienDictionaryExplainer).  input   *)
(* holds the cells of the note but the error, which is in error; keys is   *)
(* the key order of the inDegree and adjList objects.  Every event is a    *)
(* DOM event, so the cells are always rendered.  pendingInput holds the    *)
(* texts still to be typed into the words field.  Characters are letters.  *)
(***************************************************************************)
DEFAULT_WORDS ==
  <<<<"w", "r", "t">>, <<"w", "r", "f">>, <<"e", "r">>, <<"e", "t", "t">>,
    <<"r", "f", "t", "t">>>>

\* wordList.join(sep)
RECURSIVE JoinWords(_, _)
JoinWords(ws, sep) ==
  IF ws = <<>> THEN <<>>
  ELSE Head(ws) \o (IF Len(ws) = 1 THEN <<>> ELSE sep) \o JoinWords(Tail(ws), sep)

\* new Set(text.split('')): the distinct characters in the order of their
\* first occurrence.
RECURSIVE UniqueChars(_)
UniqueChars(t) ==
  IF t = <<>> THEN <<>>
  ELSE IF \E k \in 1..(Len(t) - 1) : t[k] = Last(t)
  THEN UniqueChars(SubSeq(t, 1, Len(t) - 1))
  ELSE Append(UniqueChars(SubSeq(t, 1, Len(t) - 1)), Last(t))

Elements(s) == {s[k] : k \in 1..Len(s)}

\* The algorithm cells after initialize(wordList).
initialize(wordList) ==
  [words |-> wordList, step |-> "compare", compareIndex |-> 0, rules |-> <<>>,
   keys |-> UniqueChars(JoinWords(wordList, <<>>)),
   adjList |-> [c \in Elements(JoinWords(wordList, <<>>)) |-> <<>>],
   inDegree |-> [c \in Elements(JoinWords(wordList, <<>>)) |-> 0],
   sortedOrder |-> <<>>, queue |-> <<>>, processingNode |-> Null]

\* The algorithm cells: every cell but inputText and error.
AdAlgorithm == [f \in DOMAIN input \ {"inputText"} |-> input[f]]

\* The cells with the algorithm cells a.
AdWith(a) == [f \in DOMAIN input |-> IF f = "inputText" THEN input[f] ELSE a[f]]

\* inputText.split(',').map(s => s.trim()).filter(s => s.length > 0)
AdNewWords(text) == SelectNonEmpty(MapSeq(Trim, SplitComma(text)))

\* w1.length > w2.length && w1.startsWith(w2)
AdPrefixViolation(w1, w2) ==
  Len(w1) > Len(w2) /\ SubSeq(w1, 1, Len(w2)) = w2

\* The positions below minLen where the two words differ.
AdDiffs(w1, w2) ==
  {j \in 1..Min(Len(w1), Len(w2)) : w1[j] # w2[j]}

\* The first position where the two words differ (there is one).
AdFirstDiff(w1, w2) ==
  CHOOSE j \in AdDiffs(w1, w2) : \A h \in AdDiffs(w1, w2) : j <= h

\* rules.some(r => r.source === source && r.target === target)
AdRuleExists(rules, source, target) ==
  \E k \in 1..Len(rules) : rules[k].source = source /\ rules[k].target = target

\* The cells after the rule source -> target was found.
AdAddRule(a, source, target) ==
  IF AdRuleExists(a.rules, source, target) THEN a
  ELSE [a EXCEPT
          !.rules = Append(@, [source |-> source, target |-> target]),
          !.adjList[source] =
             IF \E k \in 1..Len(@) : @[k] = target THEN @ ELSE Append(@, target),
          !.inDegree[target] = @ + 1]

\* The compare branch of nextStep on a pair of words without a prefix
\* violation.
AdComparePair(a, w1, w2) ==
  [(IF AdDiffs(w1, w2) # {}
    THEN AdAddRule(a, w1[AdFirstDiff(w1, w2)], w2[AdFirstDiff(w1, w2)])
    ELSE a)
     EXCEPT !.compareIndex = @ + 1]

\* An initial queue of every key, whatever its in-degree.
AdInitialQueueAll(a) == a.keys

\* The keys with in-degree 0, in key order.
AdInitialQueue(a) == SelectSeq(a.keys, LAMBDA c : a.inDegree[c] = 0)

\* neighbors.forEach(neighbor => { newInDegree[neighbor]--; ... })
RECURSIVE AdRelax(_, _)
AdRelax(r, neighbors) ==
  IF neighbors = <<>> THEN r
  ELSE AdRelax([inDegree |-> [r.inDegree EXCEPT ![Head(neighbors)] = @ - 1],
                nextBatch |-> IF r.inDegree[Head(neighbors)] - 1 = 0
                              THEN Append(r.nextBatch, Head(neighbors))
                              ELSE r.nextBatch],
               Tail(neighbors))

\* An empty queue that completes without the check of sortedOrder.length.
AdQueueEmptyCompletes(a) == [step |-> "complete", error |-> NoError]

\* processQueue with an empty queue: the step and the error it sets.
AdQueueEmpty(a) ==
  IF Len(a.sortedOrder) < Len(a.keys)
  THEN [step |-> a.step,
        error |-> "Cycle detected! Graph has a circular dependency."]
  ELSE [step |-> "complete", error |-> NoError]

\* processQueue with a queue that is not empty.
AdProcess(a) ==
  [a EXCEPT
     !.processingNode = <<Head(a.queue)>>,
     !.sortedOrder = Append(@, Head(a.queue)),
     !.inDegree = AdRelax([inDegree |-> a.inDegree, nextBatch |-> <<>>],
                          a.adjList[Head(a.queue)]).inDegree,
     !.queue = Tail(a.queue)
                 \o AdRelax([inDegree |-> a.inDegree, nextBatch |-> <<>>],
                            a.adjList[Head(a.queue)]).nextBatch]

MaxWords == 3

AlienWords ==
  {<<"a">>, <<"a", "b">>, <<"a", "c">>, <<"b", "a">>, <<"b", "b">>}

\* The texts of the lists of up to MaxWords words.
WordTexts ==
  {JoinWords(ws, <<",", " ">>) :
     ws \in UNION {[1..k -> AlienWords] : k \in 0..MaxWords}}

\* A text of one word, a text of two, and four words with a cycle and a
\* prefix violation.
LaterTexts ==
  {<<"a">>, <<"b", ",", "a">>,
   <<"a", "b", ",", "b", "a", ",", "a", "b", ",", "a">>}

\* The standard player's variables, which this note does not have.
AdNoPlayer ==
  /\ arr = <<>>
  /\ steps = <<>>
  /\ currentStepIndex = 0
  /\ isPlaying = FALSE
  /\ playbackSpeed = 0
  /\ view = <<>>
  /\ timers = {}
  /\ timerRef = NoTimer
  /\ advances = 0
  /\ dj = Unmounted
  /\ capacity = 0
  /\ up = Unmounted

\* The note after its mount effect, initialize(DEFAULT_WORDS).
AdMounted ==
  /\ note = "alien"
  /\ input = [inputText |-> JoinWords(DEFAULT_WORDS, <<",", " ">>)]
               @@ initialize(DEFAULT_WORDS)
  /\ error = NoError
  /\ lastEvent = "mount"
  /\ AdNoPlayer
  /\ pendingInput \in {<<t1, t2>> : t1 \in WordTexts, t2 \in LaterTexts}

AdUnchanged ==
  UNCHANGED <<note, arr, steps, currentStepIndex, isPlaying, playbackSpeed,
              view, timers, timerRef, advances, dj, capacity, up>>

\* The next pending text is typed into the words field.
handleInputChange ==
  /\ note = "alien"
  /\ pendingInput # <<>>
  /\ input' = [input EXCEPT !.inputText = Head(pendingInput)]
  /\ pendingInput' = Tail(pendingInput)
  /\ lastEvent' = "type"
  /\ UNCHANGED error
  /\ AdUnchanged

\* The Reset button.
handleLoadWords ==
  /\ note = "alien"
  /\ IF Len(AdNewWords(input.inputText)) < 2
     THEN /\ error' = "Please enter at least 2 words."
          /\ lastEvent' = "rejected"
          /\ UNCHANGED input
     ELSE /\ input' = AdWith(initialize(AdNewWords(input.inputText)))
          /\ error' = NoError
          /\ lastEvent' = "load"
  /\ UNCHANGED pendingInput
  /\ AdUnchanged

\* The Next button is shown enabled.
AdNextEnabled == input.step # "complete" /\ error = NoError

\* nextStep in the step 'compare' with a pair left to compare.
AdCompare ==
  /\ note = "alien" /\ AdNextEnabled
  /\ input.step = "compare"
  /\ input.compareIndex < Len(input.words) - 1
  /\ IF AdPrefixViolation(input.words[input.compareIndex + 1],
                          input.words[input.compareIndex + 2])
     THEN /\ error' = "Invalid Input: Prefix rule violation (longer word before shorter prefix)."
          /\ UNCHANGED input
     ELSE /\ input' = AdWith(AdComparePair(AdAlgorithm,
                                           input.words[input.compareIndex + 1],
                                           input.words[input.compareIndex + 2]))
          /\ UNCHANGED error
  /\ lastEvent' = "next"
  /\ UNCHANGED pendingInput
  /\ AdUnchanged

\* nextStep in the step 'compare' after the last pair.
startTopologicalSort ==
  /\ note = "alien" /\ AdNextEnabled
  /\ input.step = "compare"
  /\ input.compareIndex >= Len(input.words) - 1
  /\ input' = [input EXCEPT !.step = "sort",
                            !.queue = AdInitialQueue(AdAlgorithm)]
  /\ error' = IF AdInitialQueue(AdAlgorithm) = <<>> /\ Len(input.keys) > 0
              THEN "Cycle detected! Invalid Dictionary."
              ELSE error
  /\ lastEvent' = "next"
  /\ UNCHANGED pendingInput
  /\ AdUnchanged

\* nextStep in the step 'sort'.
processQueue ==
  /\ note = "alien" /\ AdNextEnabled
  /\ input.step = "sort"
  /\ IF input.queue = <<>>
     THEN /\ input' = [input EXCEPT !.step = AdQueueEmpty(AdAlgorithm).step]
          /\ error' = AdQueueEmpty(AdAlgorithm).error
     ELSE /\ input' = AdWith(AdProcess(AdAlgorithm))
          /\ UNCHANGED error
  /\ lastEvent' = "next"
  /\ UNCHANGED pendingInput
  /\ AdUnchanged

NextAlien ==
  \/ handleInputChange
  \/ handleLoadWords
  \/ AdCompare
  \/ startTopologicalSort
  \/ processQueue

SpecAlien == AdMounted /\ [][NextAlien]_vars

(***************************************************************************)
(* The claims.                                                             *)
(***************************************************************************)
\* The cells are what the committed render shows and nothing is queued.
Settled == Cells = view

\* C1: on a fixed trace of length N the index of the standard player never
\* exceeds N-1, whatever the interleaving of clicks, ticks and speed changes,
\* and a step forward at N-1 leaves the index where it is.
C1_IndexNeverExceedsLast ==
  /\ currentStepIndex <= Len(steps) - 1
  /\ handleNext(Len(steps) - 1, Len(steps)).currentStepIndex = currentStepIndex

\* C2: under step back, step forward, reset, toggle and ticks the index never
\* goes below 0, and a step back at index 0 leaves the index and isPlaying
\* unchanged.
C2_IndexNeverBelowZero ==
  /\ currentStepIndex >= 0
  /\ view.currentStepIndex >= 0
  /\ handlePrev(0) = [currentStepIndex |-> currentStepIndex, isPlaying |-> isPlaying]

\* A step back has brought the player to index 0.
C2_Witness ==
  /\ lastEvent = "prev"
  /\ currentStepIndex = 0
  /\ view.currentStepIndex = 0

\* C3: unattended playback from index 0 of a trace of length N advances the
\* index exactly N-1 times, never shows an index >= N, and ends stopped at
\* N-1 with no timer left to fire.
C3_PlaybackTerminates ==
  /\ [](currentStepIndex < Len(steps) /\ advances <= Len(steps) - 1)
  /\ <>[](/\ ~isPlaying
          /\ currentStepIndex = Len(steps) - 1
          /\ advances = Len(steps) - 1
          /\ timers = {}
          /\ Settled)

\* Playback has run to the end of the trace and stopped by itself.
C3_Witness ==
  /\ lastEvent = "toggle"
  /\ advances = Len(steps) - 1
  /\ advances > 0
  /\ currentStepIndex = Len(steps) - 1
  /\ ~isPlaying
  /\ timers = {}
  /\ Settled

\* C4: once an accepted edit that arrived during playback has settled, the
\* trace is the one of the new array, the index is 0 and playback is off;
\* no tick of the old interval has advanced the index.
C4_EditWhilePlayingResets ==
  (lastEvent = "editPlaying" /\ Settled)
    => /\ steps = generateSteps(arr)
       /\ currentStepIndex = 0
       /\ ~isPlaying
       /\ timers = {}

\* C5: at most one playback timer is pending, and none once isPlaying = false
\* has settled.
C5_AtMostOneTimer ==
  /\ Cardinality(timers) <= 1
  /\ (Settled /\ ~isPlaying) => timers = {}
  /\ note = "paths" =>
       /\ Cardinality(up.timers) <= 1
       /\ (UpSettled /\ ~up.isPlaying) => up.timers = {}

\* During playback a speed change has replaced the interval.
C5_Witness ==
  /\ lastEvent = "speed"
  /\ isPlaying
  /\ Cardinality(timers) = 1
  /\ \E t \in timers : t.id > 1

\* C6: a reset leaves index 0 and isPlaying = false whatever the state before,
\* a reset after a reset changes nothing, and no reset changes the trace.
C6_ResetIdempotent ==
  /\ [](lastEvent = "reset" => currentStepIndex = 0 /\ ~isPlaying /\ Settled)
  /\ [][ClickReset =>
          /\ steps' = steps
          /\ lastEvent = "reset" =>
               UNCHANGED <<arr, steps, currentStepIndex, isPlaying,
                           playbackSpeed, view, timers, timerRef>>]_vars

\* A reset has ended a playback: the interval it cleared is still in the ref.
C6_Witness ==
  /\ lastEvent = "reset"
  /\ currentStepIndex = 0
  /\ ~isPlaying
  /\ timerRef # NoTimer
  /\ timers = {}

\* The first element right of position i that is strictly greater, or -1.
FirstGreaterRight(a, i) ==
  IF \E j \in (i + 1)..Len(a) : a[j] > a[i]
  THEN a[CHOOSE j \in (i + 1)..Len(a) :
           a[j] > a[i] /\ \A k \in (i + 1)..(j - 1) : a[k] <= a[i]]
  ELSE -1

\* C8: the final Step's finalAns has the array's length and holds, for every
\* position, the first strictly greater element to its right or -1; the
\* array [1,3,2,4] gives [3,4,4,-1].
C8_NextGreaterResult ==
  /\ Len(Last(steps).finalAns) = Len(arr)
  /\ \A i \in 1..Len(arr) : Last(steps).finalAns[i] = FirstGreaterRight(arr, i)
  /\ arr = <<1, 3, 2, 4>> => Last(steps).finalAns = <<3, 4, 4, -1>>

\* An accepted text with a repeated value and a negative one has been typed.
C8_Witness ==
  /\ lastEvent = "edit"
  /\ Settled
  /\ \E i, j \in 1..Len(arr) : i < j /\ arr[i] = arr[j]
  /\ \E i \in 1..Len(arr) : arr[i] < 0

\* C7: in the Number-of-Ways note a reset pressed during playback leaves
\* stepIndex = 0 and isPlaying = false.
C7_ResetStopsPlayback ==
  (note = "dijkstra" /\ dj.lastEvent = "resetPlaying" /\ DjCells = dj.view)
    => dj.stepIndex = 0 /\ ~dj.isPlaying

\* C10: no value of the capacity field makes the trace generation of the
\* Knapsack note raise an error; the note always has a trace.
C10_NoFatalError ==
  note = "knapsack" => (error = NoError /\ Len(steps) >= 1)

\* C9: the trace has at least one Step, its first Step is the initial state,
\* and steps[currentStepIndex] exists in every settled state.
C9_TraceDefinedWhenSettled ==
  Settled => /\ Len(steps) >= 1
             /\ steps[1].phase = "init"
             /\ currentStepIndex \in 0..(Len(steps) - 1)

\* C11: in the Russian Doll note an edit whose text holds no parseable [w,h]
\* pair leaves steps, currentStepIndex and isPlaying as they were and raises
\* no error.
C11_DeclinesToRegenerate ==
  [][(note = "doll" /\ input' # input
        /\ RdPairs(RdClean(input'.inputStr), 1) = <<>>)
     => (/\ steps' = steps
         /\ currentStepIndex' = currentStepIndex
         /\ isPlaying' = isPlaying
         /\ error' = NoError)]_vars

\* An unparseable text was typed during playback past the first Step.
C11_Witness ==
  /\ note = "doll"
  /\ lastEvent = "declined"
  /\ currentStepIndex > 0
  /\ isPlaying
  /\ Len(steps) > 1

\* C12: the input a trace is generated from stays within the declared maxima:
\* at most MAX_ARR_SIZE values within MAX_VAL for the array note, at most
\* MAX_ENV_COUNT envelopes for the Russian Doll note.
C12_InputWithinBounds ==
  /\ note = "nge" =>
       /\ Len(arr) <= MAX_ARR_SIZE
       /\ \A k \in 1..Len(arr) : Abs(arr[k]) <= MAX_VAL
  /\ note = "doll" =>
       \A k \in 1..Len(steps) : Len(steps[k].envelopes) <= MAX_ENV_COUNT

\* The stack with every top element <= v popped: what the pop loop of the
\* reference algorithm leaves for the value v.
RECURSIVE DropNotGreater(_, _)
DropNotGreater(stack, v) ==
  IF stack # <<>> /\ v >= Last(stack)
  THEN DropNotGreater(SubSeq(stack, 1, Len(stack) - 1), v)
  ELSE stack

\* The stack of the reference algorithm once the positions i .. n-1 (0-based)
\* of the array a are processed.
RECURSIVE RefStack(_, _)
RefStack(a, i) ==
  IF i >= Len(a) THEN <<>>
  ELSE Append(DropNotGreater(RefStack(a, i + 1), a[i + 1]), a[i + 1])

\* The pops and the comparisons with the stack top made for position i.
RefPops(a, i) ==
  Len(RefStack(a, i + 1)) - Len(DropNotGreater(RefStack(a, i + 1), a[i + 1]))

RefComparisons(a, i) ==
  RefPops(a, i)
  + (IF DropNotGreater(RefStack(a, i + 1), a[i + 1]) # <<>> THEN 1 ELSE 0)

\* The Steps of the trace t between the 'loop' and the 'record' Step of
\* position i.
PopSteps(t, i) ==
  Cardinality({k \in 1..Len(t) : t[k].phase = "pop" /\ t[k].currentIndex = i})

\* C13: in the Next Greater Element trace the Steps between the 'loop' and the
\* 'record' Step of a position are as many as the comparisons plus the pops
\* made for that position.
C13_OneStepPerComparison ==
  note = "nge" =>
    \A i \in 0..(Len(arr) - 1) :
      PopSteps(steps, i) = RefComparisons(arr, i) + RefPops(arr, i)

\* The Steps of the trace t that record the check of the map for window end ed.
LsCheckSteps(t, ed) ==
  Cardinality({k \in 1..Len(t) : t[k].ed = ed /\ t[k].codeLine = "check-map"})

\* C14: in the Longest Substring trace every iteration records its check of
\* the map as one Step of its own, whether the character is in the map or not.
C14_NoSkippedDecision ==
  note = "substring" =>
    \A ed \in 0..(Len(input.inputString) - 1) : LsCheckSteps(steps, ed) = 1


\* The Steps of a binary-search trace that record an iteration as it was
\* entered: not the init and final Steps, not the Steps of the Split Array
\* note that record the range already narrowed for the next iteration, and
\* not the Steps whose range holds no integer.
IterationSteps(t) ==
  {k \in 1..Len(t) :
     /\ t[k].codeLine \notin {"init", "update-hi", "update-lo", "return-res", "return"}
     /\ "notNumbers" \notin DOMAIN t[k]}

\* C15: in the Split Array and Ship Packages traces every recorded iteration
\* with integers lo <= hi records mid = lo + ((hi - lo) div 2), rounding
\* down, hence lo <= mid <= hi.
C15_FloorMidpoint ==
  /\ note = "split" =>
       \A k \in IterationSteps(steps) :
         steps[k].lo <= steps[k].hi =>
           /\ steps[k].mid = steps[k].lo + ((steps[k].hi - steps[k].lo) \div 2)
           /\ steps[k].lo <= steps[k].mid
           /\ steps[k].mid <= steps[k].hi
  /\ note = "ship" =>
       \A k \in IterationSteps(steps) :
         steps[k].low <= steps[k].high =>
           /\ steps[k].mid = steps[k].low + ((steps[k].high - steps[k].low) \div 2)
           /\ steps[k].low <= steps[k].mid
           /\ steps[k].mid <= steps[k].high

C15_Witness ==
  /\ note = "split"
  /\ lastEvent = "edit"
  /\ \E k \in IterationSteps(steps) :
       /\ steps[k].codeLine = "calc-mid"
       /\ steps[k].lo < steps[k].hi
       /\ (steps[k].hi - steps[k].lo) % 2 = 1


\* C16: in the Sum of Subarray Minimums trace the ans of each 'calculate'
\* Step of an index i is (ans of the previous Step + arr[i] * left[i] *
\* right[i]) mod 1000000007, and every recorded ans lies in 0 .. 1000000006.
C16_ModularAccumulation ==
  note = "mins" =>
    \A k \in 1..Len(steps) :
      /\ steps[k].ans \in 0..(1000000007 - 1)
      /\ (steps[k].phase = "calculate" /\ steps[k].currentIndex >= 0) =>
           /\ k > 1
           /\ steps[k].ans =
                (steps[k - 1].ans
                   + arr[steps[k].currentIndex + 1]
                       * steps[k].left[steps[k].currentIndex + 1]
                       * steps[k].right[steps[k].currentIndex + 1]) % 1000000007

C16_Witness ==
  /\ note = "mins"
  /\ lastEvent = "edit"
  /\ \E k \in 2..Len(steps) :
       /\ steps[k].phase = "calculate"
       /\ steps[k].currentIndex >= 1
       /\ steps[k].right[steps[k].currentIndex + 1] > 1
       /\ steps[k].left[steps[k].currentIndex + 1] > 1
       /\ steps[k].ans > steps[k - 1].ans
       /\ steps[k - 1].ans > 0


\* The days a greedy loading in order needs for the packages ws under the
\* capacity cap, from a day with the load `load` on.
RECURSIVE GreedyDays(_, _, _)
GreedyDays(ws, cap, load) ==
  IF ws = <<>> THEN 1
  ELSE IF load + Head(ws) <= cap
       THEN GreedyDays(Tail(ws), cap, load + Head(ws))
       ELSE 1 + GreedyDays(Tail(ws), cap, Head(ws))

\* The capacity cap ships ws within d days: no package is heavier than cap
\* and the greedy loading needs at most d days.
ShipsWithin(ws, cap, d) ==
  /\ \A k \in 1..Len(ws) : ws[k] <= cap
  /\ GreedyDays(ws, cap, 0) <= d

\* C19: for every non-empty accepted weights array and days >= 1 the ans of
\* the final Step is the minimum capacity that ships the packages greedily in
\* order within `days` days with no package heavier than the capacity.
C19_MinimumCapacity ==
  (note = "ship" /\ input.weights # <<>> /\ input.days >= 1) =>
    /\ ShipsWithin(input.weights, steps[Len(steps)].ans, input.days)
    /\ \A cap \in 0..(steps[Len(steps)].ans - 1) :
         ~ShipsWithin(input.weights, cap, input.days)

C19_Witness ==
  /\ note = "ship"
  /\ lastEvent = "edit"
  /\ Len(input.weights) >= 2
  /\ input.days \in 2..(Len(input.weights) - 1)
  /\ \E k \in 1..Len(steps) : steps[k].codeLine = "sim-fail-weight"
  /\ \E k \in 1..Len(input.weights) : input.weights[k] < steps[Len(steps)].ans
  /\ \A k \in 1..Len(input.weights) : input.weights[k] # steps[Len(steps)].ans


C18_PlayerLeavesTrace ==
  /\ [](note = "nge" => /\ steps[1].stack = <<>>
                        /\ steps[1].rawAns = <<>>
                        /\ steps[1].finalAns = <<>>)
  /\ [][(note = "nge" /\ arr' = arr) => steps' = steps]_vars

\* Playback has run and the player was stepped back to index 0.
C18_Witness ==
  /\ note = "nge"
  /\ lastEvent = "prev"
  /\ isPlaying
  /\ timers # {}
  /\ currentStepIndex = 0
  /\ Len(steps) > 2
  /\ steps[1].stack = <<>>


\* The travel time of the road between u and v, 0 when there is none (every
\* road of the graph takes a positive time).
RoadTime(u, v) ==
  IF \E k \in 1..Len(roads) : {roads[k][1], roads[k][2]} = {u, v}
  THEN roads[CHOOSE k \in 1..Len(roads) : {roads[k][1], roads[k][2]} = {u, v}][3]
  ELSE 0

\* The paths from node 0 along roads that visit no node twice, of at most
\* len nodes.
RECURSIVE PathsUpTo(_)
PathsUpTo(len) ==
  IF len = 1 THEN {<<0>>}
  ELSE PathsUpTo(len - 1)
       \cup {Append(p, v) : <<p, v>> \in
                {<<q, u>> \in PathsUpTo(len - 1) \X (0..(n - 1)) :
                   /\ \A k \in 1..Len(q) : q[k] # u
                   /\ RoadTime(q[Len(q)], u) > 0}}

RoadPaths == PathsUpTo(n)

RECURSIVE PathTime(_)
PathTime(p) ==
  IF Len(p) <= 1 THEN 0
  ELSE RoadTime(p[1], p[2]) + PathTime(Tail(p))

\* The shortest travel time from node 0 to v and the paths that take it.
RefShortest(v) ==
  CHOOSE t \in {PathTime(p) : p \in {q \in RoadPaths : q[Len(q)] = v}} :
    \A p \in {q \in RoadPaths : q[Len(q)] = v} : t <= PathTime(p)

RefShortestPaths(v) ==
  {p \in RoadPaths : p[Len(p)] = v /\ PathTime(p) = RefShortest(v)}

\* The time a is not above the time b, Infinity being above every time.
NotAbove(a, b) == b = Infinity \/ (a # Infinity /\ a <= b)

\* C20: on the hard-coded road graph the final Step's dist[v] is the
\* shortest travel time from node 0 to v and ways[v] the number of shortest
\* paths modulo 1000000007; across the trace dist[v] never increases; and
\* from a Step on in which every node is processed, dist and ways stay as
\* they are.
C20_DijkstraResult ==
  note = "dijkstra" =>
    /\ \A v \in 0..(n - 1) :
         /\ simulation[Len(simulation)].dist[v] = RefShortest(v)
         /\ simulation[Len(simulation)].ways[v]
              = Cardinality(RefShortestPaths(v)) % 1000000007
    /\ \A k \in 1..(Len(simulation) - 1) : \A v \in 0..(n - 1) :
         NotAbove(simulation[k + 1].dist[v], simulation[k].dist[v])
    /\ \A k \in 1..(Len(simulation) - 1) :
         (\A u \in 0..(n - 1) : simulation[k].processed[u]) =>
           /\ simulation[k + 1].dist = simulation[k].dist
           /\ simulation[k + 1].ways = simulation[k].ways

\* The player shows the final Step, with several shortest paths to node 6,
\* and Steps follow the one that processes the last node.
C20_Witness ==
  /\ note = "dijkstra"
  /\ dj.view.stepIndex = Len(simulation) - 1
  /\ simulation[Len(simulation)].ways[n - 1] > 1
  /\ \E k \in 1..(Len(simulation) - 2) :
       \A u \in 0..(n - 1) : simulation[k].processed[u]
  /\ \E k \in 1..(Len(simulation) - 1) : \E v \in 0..(n - 1) :
       /\ simulation[k].dist[v] = Infinity
       /\ simulation[k + 1].dist[v] # Infinity


\* The characters s[st..ed] (0-based, inclusive) are pairwise different.
NoRepeat(s, st, ed) ==
  \A i \in (st + 1)..(ed + 1) : \A j \in (st + 1)..(ed + 1) :
    i # j => s[i] # s[j]

\* The length of the longest substring of s without repeating characters.
RefLongest(s) ==
  CHOOSE len \in 0..Len(s) :
    /\ len = 0 \/ \E st \in 0..(Len(s) - len) : NoRepeat(s, st, st + len - 1)
    /\ \A more \in (len + 1)..Len(s) :
         \A st \in 0..(Len(s) - more) : ~NoRepeat(s, st, st + more - 1)

\* C30: in every Step of the Longest Substring trace 0 <= st <= ed + 1; in
\* every 'update_ans' Step the window s[st..ed] has no repeated character and
\* ans is the largest window length of the 'update_ans' Steps so far; the
\* final ans is the length of the longest substring without repeating
\* characters.
C30_SlidingWindow ==
  note = "substring" =>
    /\ \A k \in 1..Len(steps) :
         /\ 0 <= steps[k].st
         /\ steps[k].st <= steps[k].ed + 1
         /\ steps[k].phase = "update_ans" =>
              /\ NoRepeat(input.inputString, steps[k].st, steps[k].ed)
              /\ \A j \in 1..k : steps[j].phase = "update_ans" =>
                   steps[j].ed - steps[j].st + 1 <= steps[k].ans
              /\ \E j \in 1..k : /\ steps[j].phase = "update_ans"
                                 /\ steps[j].ed - steps[j].st + 1 = steps[k].ans
    /\ steps[Len(steps)].ans = RefLongest(input.inputString)

\* A string was typed whose trace moves st past an earlier duplicate and
\* meets a duplicate left of the window.
C30_Witness ==
  /\ note = "substring"
  /\ lastEvent = "edit"
  /\ \E k \in 1..Len(steps) :
       /\ steps[k].phase = "move_start"
       /\ steps[k].st > steps[k].duplicateIndex + 1
  /\ steps[Len(steps)].ans = 2


\* The inner cells up to the cell `cell` in row-major order, in a grid of
\* cols columns; none for the cell (0,0) and for no cell.
InnerPrefix(cell, cols) ==
  {rc \in (1..8) \X (1..(cols - 1)) :
     \/ rc[1] < cell[1]
     \/ rc[1] = cell[1] /\ rc[2] <= cell[2]}

\* The filled set of the cells c is empty, or all base cells and the inner
\* cells up to currentCell.
FillOrder(c) ==
  \/ c.filledCells = {}
  \/ /\ c.currentCell # NoCell
     /\ c.currentCell[1] < c.m
     /\ c.filledCells = BaseCells(c) \cup InnerPrefix(c.currentCell, c.n)

AllCells(c) == (0..(c.m - 1)) \X (0..(c.n - 1))

C26_StackEqualsBruteForce ==
  (note = "mins" /\ BfAccepts(arr)) =>
    steps[Len(steps)].ans = BfSteps(arr)[Len(BfSteps(arr))].totalSum

\* An array with a repeated value was typed.
C26_Witness ==
  /\ note = "mins"
  /\ lastEvent = "edit"
  /\ BfAccepts(arr)
  /\ Len(arr) >= 3
  /\ \E i \in 1..Len(arr) : \E j \in 1..Len(arr) : i < j /\ arr[i] = arr[j]
  /\ \E i \in 1..Len(arr) : \E j \in 1..Len(arr) : arr[i] < arr[j]


\* The envelopes parsed from the text of the field.
FieldEnvelopes == RdEnvelopes(RdPairs(RdClean(input.inputStr), 1))

\* C27: for every non-empty list of envelopes, equal widths and equal
\* heights included, the maximum of dp in the final Step of the O(n^2) trace
\* equals the lisSize of the final Step of the sort-plus-LIS trace.
C27_DpEqualsLis ==
  (note = "doll" /\ FieldEnvelopes # <<>>) =>
    MaxSeq(steps[Len(steps)].dp)
      = RoGenerateSteps(FieldEnvelopes)[Len(RoGenerateSteps(FieldEnvelopes))].lisSize

\* Envelopes were typed of which two have the same width and two the same
\* height, and two of which nest.
C27_Witness ==
  /\ note = "doll"
  /\ lastEvent = "edit"
  /\ Len(FieldEnvelopes) = 3
  /\ MaxSeq(steps[Len(steps)].dp) = 2
  /\ \E i \in 1..3 : \E j \in 1..3 :
       i # j /\ FieldEnvelopes[i].w = FieldEnvelopes[j].w
             /\ FieldEnvelopes[i].h < FieldEnvelopes[j].h
  /\ \E i \in 1..3 : \E j \in 1..3 :
       i # j /\ FieldEnvelopes[i].h = FieldEnvelopes[j].h


\* The answer a final Step shows: dp[n - 1][amount] in 2D mode, dp[amount]
\* in 1D mode, INF shown as -1.
CcAnswer(t, inp) ==
  IF t[Len(t)].dp[IF inp.mode = "2D" THEN Len(inp.coins) ELSE 1][inp.amount + 1] >= INF
  THEN -1
  ELSE t[Len(t)].dp[IF inp.mode = "2D" THEN Len(inp.coins) ELSE 1][inp.amount + 1]

RECURSIVE SubtreeNodes(_, _)
SubtreeNodes(T, id) ==
  IF id = 0 THEN {}
  ELSE {id} \cup SubtreeNodes(T, T[id].left) \cup SubtreeNodes(T, T[id].right)

\* The value v is in the subtree of the node id.
HasValue(T, id, v) == \E k \in SubtreeNodes(T, id) : T[k].val = v

\* The lowest node whose subtree holds both p and q.
RefLca(T, p, q) ==
  CHOOSE id \in 1..Len(T) :
    /\ HasValue(T, id, p) /\ HasValue(T, id, q)
    /\ ~(HasValue(T, T[id].left, p) /\ HasValue(T, T[id].left, q))
    /\ ~(HasValue(T, T[id].right, p) /\ HasValue(T, T[id].right, q))

\* The tree has distinct values and holds both p and q, p # q.
LcaDefined(T, p, q) ==
  /\ T # NoTree
  /\ \A j, k \in 1..Len(T) : j # k => T[j].val # T[k].val
  /\ p # q
  /\ HasValue(T, 1, p) /\ HasValue(T, 1, q)

\* C21: for a tree of distinct values that holds both p and q, p # q, the
\* returnValue of the last Step is the value of the lowest common ancestor,
\* and a 'found_lca' Step is recorded for a node only if p lies in one of
\* its subtrees and q in the other.
C21_LowestCommonAncestor ==
  (note = "lca" /\ LcaDefined(input.root, input.pVal, input.qVal)) =>
    /\ steps # <<>>
    /\ Last(steps).returnValue
         = <<input.root[RefLca(input.root, input.pVal, input.qVal)].val>>
    /\ \A k \in 1..Len(steps) :
         steps[k].phase = "found_lca" =>
           \/ /\ HasValue(input.root, input.root[steps[k].currentNode].left, input.pVal)
              /\ HasValue(input.root, input.root[steps[k].currentNode].right, input.qVal)
           \/ /\ HasValue(input.root, input.root[steps[k].currentNode].left, input.qVal)
              /\ HasValue(input.root, input.root[steps[k].currentNode].right, input.pVal)

\* A typed tree whose lowest common ancestor of p and q is below the root
\* and is reported by a 'found_lca' Step.
C21_Witness ==
  /\ note = "lca" /\ LcaDefined(input.root, input.pVal, input.qVal)
  /\ input.treeInput # DefaultTreeInput
  /\ RefLca(input.root, input.pVal, input.qVal) # 1
  /\ \E k \in 1..Len(steps) : steps[k].phase = "found_lca"
  /\ Last(steps).returnValue
       = <<input.root[RefLca(input.root, input.pVal, input.qVal)].val>>


\* The rows of the 'merge' and 'merge-null' steps of S at the indices 0..k.
RECURSIVE MergedRows(_, _)
MergedRows(S, k) ==
  IF k < 0 THEN <<>>
  ELSE IF S[k + 1].type \in {"merge", "merge-null"}
  THEN Append(MergedRows(S, k - 1), S[k + 1].row)
  ELSE MergedRows(S, k - 1)

\* C22: in every settled state completedRows holds, in order and without
\* duplicates, the rows of the 'merge' and 'merge-null' steps at the indices
\* 0..currentStepIndex of the current join type's step list; it is empty
\* whenever currentStepIndex = -1.
C22_RowsFromSteps ==
  note = "joins" =>
    /\ JoinCells = view =>
         /\ steps = JoinSteps(input.joinType)
         /\ currentStepIndex < Len(steps)
         /\ input.completedRows = MergedRows(steps, currentStepIndex)
         /\ \A j, k \in 1..Len(input.completedRows) :
              j # k => input.completedRows[j] # input.completedRows[k]
    /\ currentStepIndex = -1 => input.completedRows = <<>>
    /\ view.currentStepIndex = -1 => view.completedRows = <<>>

\* A FULL join replayed to its end after an earlier join: the four rows.
C22_Witness ==
  /\ note = "joins" /\ JoinCells = view
  /\ input.joinType = "FULL"
  /\ lastEvent = "tick"
  /\ currentStepIndex = Len(steps) - 1
  /\ Len(input.completedRows) = 4
  /\ pendingInput = <<>>


\* The rule of two adjacent words: their characters at the first position
\* where they differ, if there is one.
PairRule(w1, w2) ==
  {<<w1[j], w2[j]>> :
     j \in {h \in 1..Min(Len(w1), Len(w2)) :
              w1[h] # w2[h] /\ \A g \in 1..(h - 1) : w1[g] = w2[g]}}

\* The ordering rules of a word list.
RefRules(ws) == UNION {PairRule(ws[k], ws[k + 1]) : k \in 1..(Len(ws) - 1)}

\* The pairs two rules chain to.
Compose(R) ==
  {<<pq[1][1], pq[2][2]>> : pq \in {rs \in R \X R : rs[1][2] = rs[2][1]}}

RECURSIVE TransitiveClosure(_)
TransitiveClosure(R) ==
  IF Compose(R) \subseteq R THEN R ELSE TransitiveClosure(R \cup Compose(R))

HasCycle(R) == \E p \in TransitiveClosure(R) : p[1] = p[2]

\* The rules of the loaded words contain a cycle.
AdCyclic == note = "alien" /\ HasCycle(RefRules(input.words))

CycleErrors ==
  {"Cycle detected! Invalid Dictionary.",
   "Cycle detected! Graph has a circular dependency."}

PrefixError ==
  "Invalid Input: Prefix rule violation (longer word before shorter prefix)."

\* With an error set, a step leaves the algorithm cells alone unless it is a
\* successful load, which clears the error.
AdFrozenUntilReload ==
  (note = "alien" /\ error # NoError) =>
    \/ AdAlgorithm' = AdAlgorithm
    \/ /\ lastEvent' = "load"
       /\ error' = NoError
       /\ AdAlgorithm' = initialize(AdNewWords(input.inputText))

\* The comparisons and the characters sorted so far.
AdMeasure ==
  input.compareIndex + Len(input.sortedOrder)
    + (IF input.step = "sort" THEN 1 ELSE 0)

\* C23 as stated: with a cycle in the rules of the loaded words no nextStep
\* reaches 'complete', the error a nextStep sets is a 'Cycle detected'
\* error, and with an error set the algorithm cells change only by a
\* successful load.
C23_CycleDetected ==
  [][/\ AdCyclic' => input'.step # "complete"
     /\ (AdCyclic' /\ lastEvent' = "next" /\ error' # NoError)
          => error' \in CycleErrors
     /\ AdFrozenUntilReload]_vars

\* C23 amended: with a cycle in the rules of the loaded words no nextStep
\* reaches 'complete'; every nextStep either sets an error or is one more
\* of a bounded number of comparisons and sorted characters; the error is a
\* 'Cycle detected' error unless two adjacent words violate the prefix
\* rule, and then it may be the prefix error; with an error set the
\* algorithm cells change only by a successful load.
C23_CycleNeverCompletes ==
  /\ [](AdCyclic =>
          /\ input.step # "complete"
          /\ AdMeasure < Len(input.words) + Len(input.keys)
          /\ (lastEvent = "next" /\ error # NoError) =>
               \/ error \in CycleErrors
               \/ /\ error = PrefixError
                  /\ \E k \in 1..(Len(input.words) - 1) :
                       /\ Len(input.words[k]) > Len(input.words[k + 1])
                       /\ SubSeq(input.words[k], 1, Len(input.words[k + 1]))
                            = input.words[k + 1])
  /\ [][/\ (AdCyclic /\ lastEvent' = "next")
             => (error' # NoError \/ AdMeasure' = AdMeasure + 1)
        /\ AdFrozenUntilReload]_vars

\* A run on typed words with a cycle and a character outside it, stopped
\* by processQueue's 'Cycle detected' error.
C23_Witness ==
  /\ AdCyclic
  /\ input.words # DEFAULT_WORDS
  /\ input.sortedOrder # <<>>
  /\ lastEvent = "next"
  /\ error = "Cycle detected! Graph has a circular dependency."


\* The distinct characters of a word list.
CharsOf(ws) == UNION {{ws[k][j] : j \in 1..Len(ws[k])} : k \in 1..Len(ws)}

\* The position of the character c in the sequence s (0 when absent).
PositionIn(s, c) ==
  IF \E k \in 1..Len(s) : s[k] = c THEN CHOOSE k \in 1..Len(s) : s[k] = c ELSE 0

\* C24: when step is 'complete', sortedOrder holds every distinct character
\* of the loaded words exactly once and the source of every rule before its
\* target; no character is in sortedOrder twice and no inDegree value is
\* negative.
C24_TopologicalOrder ==
  note = "alien" =>
    /\ input.step = "complete" =>
         /\ Elements(input.sortedOrder) = CharsOf(input.words)
         /\ Len(input.sortedOrder) = Cardinality(CharsOf(input.words))
         /\ \A r \in RefRules(input.words) :
              PositionIn(input.sortedOrder, r[1]) < PositionIn(input.sortedOrder, r[2])
         /\ \A k \in 1..Len(input.rules) :
              PositionIn(input.sortedOrder, input.rules[k].source)
                < PositionIn(input.sortedOrder, input.rules[k].target)
    /\ \A j, k \in 1..Len(input.sortedOrder) :
         j # k => input.sortedOrder[j] # input.sortedOrder[k]
    /\ \A c \in DOMAIN input.inDegree : input.inDegree[c] >= 0

\* A completed run on typed words of three characters whose two pairs give
\* the same rule.
C24_Witness ==
  /\ note = "alien"
  /\ input.step = "complete"
  /\ input.words # DEFAULT_WORDS
  /\ Len(input.words) = 3
  /\ Cardinality(RefRules(input.words)) = 1
  /\ Len(input.sortedOrder) = 2

\* C25: a load of fewer than 2 words sets an error, leaves the algorithm
\* cells unchanged, and the run in progress can be continued with nextStep
\* afterwards.
C25_RejectedLoad ==
  [][(note = "alien" /\ lastEvent' = "rejected") =>
       /\ error' # NoError
       /\ AdAlgorithm' = AdAlgorithm
       /\ AdNextEnabled => AdNextEnabled']_vars

====
